---------------------------- MODULE Spec2Model ----------------------------
(***************************************************************************)
(* A model of parts of the Stella Atari 2600 emulator core:                *)
(*   - AudioQueue (src/common/AudioQueue.cxx): the ring of audio fragments *)
(*     shared by the emulation thread and the audio thread;                *)
(*   - the bank switching of Cartridge3EPlus, CartridgeMNetwork and        *)
(*     CartridgeDPCPlus (src/emucore/Cart*.cxx).                           *)
(***************************************************************************)
EXTENDS Integers, Sequences, FiniteSets, TLC

VARIABLES
  \* ---- AudioQueue ----
  myFragmentQueue,            \* the ring: slot index 0..capacity-1 -> fragment
  mySize,                     \* number of queued fragments
  myNextFragment,             \* read cursor
  myFirstFragmentForEnqueue,  \* reserved fragment for the first enqueue(0)
  myFirstFragmentForDequeue,  \* reserved fragment for the first dequeue(0)
  myMutex,                    \* owner of the mutex, or NoThread
  aqPc,                       \* per thread: "idle", "lock" (waits for the mutex), "body"
  aqCall,                     \* per thread: the call in progress / last made
  aqRet,                      \* per thread: result of the last call
  aqHand,                     \* per thread: the fragment the caller owns
  aqSerial,                   \* history: per slot, the number of the enqueue that filled it
  aqEnqLog,                   \* history: the fragments enqueued, in order
  aqDeqSerials,               \* history: the enqueue numbers returned by dequeue, in order
  aqDropped,                  \* history: the enqueue numbers overwritten in a full ring
  \* ---- Cartridge and the System's page table ----
  scheme,                     \* which cartridge class is attached: "3E+", "E7" or "DPC+"
  installed,                  \* install() has run
  myBankLocked,               \* Cartridge::myBankLocked
  myBankChanged,              \* Cartridge::myBankChanged
  bankInUse,                  \* Cartridge3EPlus::bankInUse[8]
  myCurrentSlice,             \* CartridgeMNetwork::myCurrentSlice[2]
  myCurrentRAM,               \* CartridgeMNetwork::myCurrentRAM
  myBankOffset,               \* CartridgeDPCPlus::myBankOffset
  myRAM,                      \* the cartridge RAM: the cells written since reset
  myParameter,                \* CartridgeDPCPlus::myParameter[8]
  myParameterPointer,         \* CartridgeDPCPlus::myParameterPointer
  myCounters,                 \* CartridgeDPCPlus::myCounters[8]
  myFractionalCounters,       \* CartridgeDPCPlus::myFractionalCounters[8]
  myFractionalIncrements,     \* CartridgeDPCPlus::myFractionalIncrements[8]
  fetchLog,                   \* history: the array elements the last call indexed
  fetchSteps,                 \* history: data fetcher accesses that moved a counter
  myStream,                   \* the Serializer: what the last successful save() wrote
  pageAccess,                 \* System: page number -> PageAccess
  cartOp,                     \* history: the last operation
  cartRet,                    \* history: what it returned
  cartThrown,                 \* history: an exception left it
  cartFailAt,                 \* history: the Serializer call that threw in it, or 0
  tiaPoke,                    \* history: the addresses the last call passed to TIA::poke
  \* ---- The DPC+ random number generator ----
  myRandomNumber,             \* CartridgeDPCPlus::myRandomNumber
  rngSeed,                    \* history: its value at the start
  rngForward,                 \* history: the calls of clockRandomNumberGenerator
  rngBackward,                \* history: the calls of priorClockRandomNumberGenerator
  \* ---- The processor ----
  PC,                         \* M6502::PC
  SP,                         \* M6502::SP
  B,                          \* M6502::B
  D,                          \* M6502::D
  I,                          \* M6502::I
  myExecutionStatus,          \* M6502::myExecutionStatus, the set of its bits
  myOnHaltCallback,           \* M6502::myOnHaltCallback is set
  myHaltRequested,            \* M6502::myHaltRequested
  debuggerSupport,            \* the build defines DEBUGGER_SUPPORT
  myBreakPoints,              \* M6502::myBreakPoints: address -> its flags (bank 0)
  myReadTraps,                \* M6502::myReadTraps: the addresses set
  myWriteTraps,               \* M6502::myWriteTraps: the addresses set
  myJustHitReadTrapFlag,      \* M6502::myJustHitReadTrapFlag
  myJustHitWriteTrapFlag,     \* M6502::myJustHitWriteTrapFlag
  myHitTrapInfo,              \* M6502::myHitTrapInfo
  atLastBreakCycle,           \* myLastBreakCycle == mySystem->cycles()
  cpuStream,                  \* the Serializer: what the last successful save() wrote
  cpuOp,                      \* history: the last operation
  cpuResult,                  \* history: the DispatchResult of the last execute()
  cpuResumes,                 \* history: the operation before ended in an EmulationWarning
  cpuRet,                     \* history: what the last save() or load() returned
  cpuThrown,                  \* history: an exception left the last operation
  cpuFailAt,                  \* history: the Serializer call that threw in it, or 0
  cpuTrace,                   \* history: the opcodes the last execute() fetched
  cpuBus,                     \* history: the bus accesses of the last operation
  cpuHaltCycles,              \* history: the cycles the halt callback added in it
  cpuBudget,                  \* history: the cycles the last execute() was given
  cpuFatal,                   \* history: execute() returned fatal since the last reset()
  cpuLog,                     \* history: what the last execute() did, in order
  cpuEvents,                  \* history: what the devices did during it
  cpuRaised,                  \* history: the execute() calls with device events since reset()
  cpuBreak,                   \* history: the debugger test that ended the last execute()
  haltOutstanding,            \* history: requests to halt made less callbacks and drops
  haltRequests,               \* history: the calls of requestHalt() on the pending request
  haltHandled,                \* history: the same, for the request the callback last served
  \* ---- TIA delay queue ----
  myDelayQueue,               \* TIA::myDelayQueue: the current slot and every slot's writes
  tiaRegisters,               \* the value delayedWrite() last gave each register
  tiaApplied,                 \* history: the delayedWrite() calls of the last clock, in order
  tiaWritten,                 \* history: the writes not yet due, in the order written
  tiaFired,                   \* history: the writes that came due in the last clock
  tiaDue,                     \* history: each register's last write that has come due
  \* ---- FixedStack ----
  fsStack,                    \* _stack: index 0..CAPACITY-1 -> element
  fsSize,                     \* _size
  fsOp,                       \* the last call made on the stack
  fsBefore,                   \* _stack and _size before the last reverse()
  fsAccessed,                 \* array indices the last reverse() read or wrote
  fsOutOfBounds,              \* the last reverse() indexed outside the array
  fsCrashed                   \* the program ended in that access

aqVars == <<myFragmentQueue, mySize, myNextFragment, myFirstFragmentForEnqueue,
            myFirstFragmentForDequeue, myMutex, aqPc, aqCall, aqRet, aqHand,
            aqSerial, aqEnqLog, aqDeqSerials, aqDropped>>

cartVars == <<scheme, installed, myBankLocked, myBankChanged, bankInUse,
              myCurrentSlice, myCurrentRAM, myBankOffset, myRAM, myParameter,
              myParameterPointer, myCounters, myFractionalCounters,
              myFractionalIncrements, fetchLog, fetchSteps, myStream, pageAccess,
              cartOp, cartRet,
              cartThrown, cartFailAt, tiaPoke>>

rngVars == <<myRandomNumber, rngSeed, rngForward, rngBackward>>

cpuVars == <<PC, SP, B, D, I, myExecutionStatus, myOnHaltCallback,
             myHaltRequested, debuggerSupport, myBreakPoints, myReadTraps,
             myWriteTraps, myJustHitReadTrapFlag, myJustHitWriteTrapFlag,
             myHitTrapInfo, atLastBreakCycle, cpuStream, cpuOp, cpuResult, cpuResumes,
             cpuRet, cpuThrown, cpuFailAt, cpuTrace, cpuBus, cpuHaltCycles,
             cpuBudget, cpuFatal, cpuLog, cpuEvents, cpuRaised, cpuBreak,
             haltOutstanding, haltRequests, haltHandled>>

tiaVars == <<myDelayQueue, tiaRegisters, tiaApplied, tiaWritten, tiaFired, tiaDue>>

stackVars == <<fsStack, fsSize, fsOp, fsBefore, fsAccessed, fsOutOfBounds, fsCrashed>>

vars == <<aqVars, cartVars, rngVars, cpuVars, tiaVars, stackVars>>

(***************************************************************************)
(*                              AudioQueue                                 *)
(***************************************************************************)

\* Capacity of the ring (the constructor's argument).
Capacity == 2
\* Number of non-null enqueue calls explored.
MaxEnqueues == Capacity + 2

NullFragment == 0
\* The result of a call that left by throwing runtime_error.
Thrown == -1
NoThread == "none"
Producer == "producer"
Consumer == "consumer"
Threads == {Producer, Consumer}

\* The capacity+2 fragments carved out of myFragmentBuffer: fragment i is
\* myFragmentBuffer + (i-1) * sampleSize * myFragmentSize.
AllFragments == 1 .. (Capacity + 2)

\* AudioQueue::AudioQueue
InitQueue ==
  /\ myFragmentQueue = [i \in 0 .. (Capacity - 1) |-> i + 1]
  /\ myFirstFragmentForEnqueue = Capacity + 1
  /\ myFirstFragmentForDequeue = Capacity + 2
  /\ mySize = 0
  /\ myNextFragment = 0

InitAQ ==
  /\ InitQueue
  /\ myMutex = NoThread
  /\ aqPc = [t \in Threads |-> "idle"]
  /\ aqCall = [t \in Threads |-> [op |-> "none", arg |-> NullFragment, size |-> 0]]
  /\ aqRet = [t \in Threads |-> NullFragment]
  /\ aqHand = [t \in Threads |-> NullFragment]
  /\ aqSerial = [i \in 0 .. (Capacity - 1) |-> 0]
  /\ aqEnqLog = <<>>
  /\ aqDeqSerials = <<>>
  /\ aqDropped = {}

aqHistory == <<aqSerial, aqEnqLog, aqDeqSerials, aqDropped>>
aqQueue == <<myFragmentQueue, mySize, myNextFragment,
             myFirstFragmentForEnqueue, myFirstFragmentForDequeue>>

\* A thread starts a call: the emulation thread enqueues, the audio thread
\* dequeues, both may ask for the size.  The fragment passed is the one the
\* caller owns, or null.
AQCall(t, op, arg) ==
  /\ aqPc[t] = "idle"
  /\ op \in (IF t = Producer THEN {"enqueue", "size"} ELSE {"dequeue", "size"})
  /\ arg \in (IF op = "size" THEN {NullFragment} ELSE {NullFragment, aqHand[t]})
  /\ (op = "enqueue" /\ arg # NullFragment) => Len(aqEnqLog) < MaxEnqueues
  /\ aqPc' = [aqPc EXCEPT ![t] = "lock"]
  /\ aqCall' = [aqCall EXCEPT ![t] = [op |-> op, arg |-> arg, size |-> 0]]
  /\ UNCHANGED <<aqQueue, myMutex, aqRet, aqHand, aqHistory>>

\* lock_guard<mutex> guard(myMutex): the constructor blocks until the mutex is free.
AQLock(t) ==
  /\ aqPc[t] = "lock"
  /\ myMutex = NoThread
  /\ myMutex' = t
  /\ aqPc' = [aqPc EXCEPT ![t] = "body"]
  /\ UNCHANGED <<aqQueue, aqCall, aqRet, aqHand, aqHistory>>

\* The call of thread t returns r (or throws, r = Thrown); the lock_guard's
\* destructor releases the mutex.  sz is mySize as the call saw it.
AQReturn(t, r, sz) ==
  /\ aqPc[t] = "body"
  /\ myMutex = t
  /\ myMutex' = NoThread
  /\ aqPc' = [aqPc EXCEPT ![t] = "idle"]
  /\ aqRet' = [aqRet EXCEPT ![t] = r]
  /\ aqCall' = [aqCall EXCEPT ![t].size = sz]

\* The ring slot enqueue writes: (myNextFragment + mySize) % capacity.
EnqueueIndexAtCursor == myNextFragment % Capacity
EnqueueIndex == (myNextFragment + mySize) % Capacity

\* The read cursor moved on by one slot: (myNextFragment + 1) % capacity.
AdvancedCursorUnwrapped == myNextFragment + 1
AdvancedCursor == (myNextFragment + 1) % Capacity

\* newFragment = myFragmentQueue.at(fragmentIndex): the fragment enqueue
\* takes out of the slot it writes and returns.
ReplacedFragmentAtCursor(fragmentIndex) == myFragmentQueue[myNextFragment]
ReplacedFragment(fragmentIndex) == myFragmentQueue[fragmentIndex]

\* enqueue(0): hands out the reserved fragment once, throws afterwards.
EnqueueNullKeepsReserve(t) ==
  IF myFirstFragmentForEnqueue = NullFragment
  THEN /\ AQReturn(t, Thrown, mySize)
       /\ UNCHANGED <<aqQueue, aqHand, aqHistory>>
  ELSE /\ AQReturn(t, myFirstFragmentForEnqueue, mySize)
       /\ aqHand' = [aqHand EXCEPT ![t] = myFirstFragmentForEnqueue]
       /\ UNCHANGED <<aqQueue, aqHistory>>
EnqueueNull(t) ==
  IF myFirstFragmentForEnqueue = NullFragment
  THEN /\ AQReturn(t, Thrown, mySize)
       /\ UNCHANGED <<aqQueue, aqHand, aqHistory>>
  ELSE /\ myFirstFragmentForEnqueue' = NullFragment
       /\ AQReturn(t, myFirstFragmentForEnqueue, mySize)
       /\ aqHand' = [aqHand EXCEPT ![t] = myFirstFragmentForEnqueue]
       /\ UNCHANGED <<myFragmentQueue, mySize, myNextFragment,
                      myFirstFragmentForDequeue, aqHistory>>

\* enqueue(fragment), fragment non-null.
EnqueueFragment(t, fragment) ==
  LET fragmentIndex == EnqueueIndex
      newFragment == ReplacedFragment(fragmentIndex)
  IN /\ myFragmentQueue' = [myFragmentQueue EXCEPT ![fragmentIndex] = fragment]
     /\ IF mySize < Capacity
        THEN mySize' = mySize + 1 /\ myNextFragment' = myNextFragment
        ELSE mySize' = mySize /\ myNextFragment' = AdvancedCursor
     /\ AQReturn(t, newFragment, mySize)
     /\ aqHand' = [aqHand EXCEPT ![t] = newFragment]
     /\ aqEnqLog' = Append(aqEnqLog, fragment)
     /\ aqSerial' = [aqSerial EXCEPT ![fragmentIndex] = Len(aqEnqLog) + 1]
     /\ aqDropped' = IF mySize < Capacity THEN aqDropped
                     ELSE aqDropped \cup {aqSerial[fragmentIndex]}
     /\ UNCHANGED <<myFirstFragmentForEnqueue, myFirstFragmentForDequeue,
                    aqDeqSerials>>

\* AudioQueue::enqueue
Enqueue(t) ==
  /\ aqPc[t] = "body"
  /\ aqCall[t].op = "enqueue"
  /\ IF aqCall[t].arg = NullFragment
     THEN EnqueueNull(t)
     ELSE EnqueueFragment(t, aqCall[t].arg)

\* if (mySize == 0) return 0;
QueueIsEmptyNeverTaken == FALSE
QueueIsEmpty == mySize = 0

\* dequeue on an empty queue.
DequeueEmpty(t) ==
  /\ AQReturn(t, NullFragment, mySize)
  /\ UNCHANGED <<aqQueue, aqHand, aqHistory>>

\* dequeue(0) after the reserved fragment is spent.
DequeueThrow(t) ==
  /\ AQReturn(t, Thrown, mySize)
  /\ UNCHANGED <<aqQueue, aqHand, aqHistory>>

\* dequeue on a non-empty queue: the oldest fragment leaves, the caller's
\* fragment (or the reserved one) takes its slot.
DequeueSwap(t, arg) ==
  LET fragment == IF arg = NullFragment THEN myFirstFragmentForDequeue ELSE arg
      nextFragment == myFragmentQueue[myNextFragment]
  IN /\ myFirstFragmentForDequeue' =
          IF arg = NullFragment THEN NullFragment ELSE myFirstFragmentForDequeue
     /\ myFragmentQueue' = [myFragmentQueue EXCEPT ![myNextFragment] = fragment]
     /\ mySize' = mySize - 1
     /\ myNextFragment' = AdvancedCursor
     /\ AQReturn(t, nextFragment, mySize)
     /\ aqHand' = [aqHand EXCEPT ![t] = nextFragment]
     /\ aqDeqSerials' = Append(aqDeqSerials, aqSerial[myNextFragment])
     /\ aqSerial' = [aqSerial EXCEPT ![myNextFragment] = 0]
     /\ UNCHANGED <<myFirstFragmentForEnqueue, aqEnqLog, aqDropped>>

\* AudioQueue::dequeue
DequeueWaitsForData(t) ==
  /\ aqPc[t] = "body"
  /\ aqCall[t].op = "dequeue"
  /\ mySize # 0
  /\ IF aqCall[t].arg = NullFragment /\ myFirstFragmentForDequeue = NullFragment
     THEN DequeueThrow(t)
     ELSE DequeueSwap(t, aqCall[t].arg)
Dequeue(t) ==
  /\ aqPc[t] = "body"
  /\ aqCall[t].op = "dequeue"
  /\ IF QueueIsEmpty
     THEN DequeueEmpty(t)
     ELSE IF aqCall[t].arg = NullFragment /\ myFirstFragmentForDequeue = NullFragment
          THEN DequeueThrow(t)
          ELSE DequeueSwap(t, aqCall[t].arg)

\* AudioQueue::size
Size(t) ==
  /\ aqPc[t] = "body"
  /\ aqCall[t].op = "size"
  /\ AQReturn(t, mySize, mySize)
  /\ UNCHANGED <<aqQueue, aqHand, aqHistory>>

(***************************************************************************)
(*                 System page table and Cartridge base                    *)
(***************************************************************************)

\* System::PAGE_SHIFT, PAGE_SIZE and PAGE_MASK: pages of 64 bytes.
PAGE_SIZE == 64
\* The 13-bit address space seen by the 6507: System::ADDRESS_MASK + 1.
ADDRESS_SPACE == 8192
Pages == 0 .. ((ADDRESS_SPACE \div PAGE_SIZE) - 1)
PageOf(addr) == (addr % ADDRESS_SPACE) \div PAGE_SIZE

\* System::PageAccess(device, type): no direct bases.  buf names the buffer
\* directPeekBase points into ("none" for a null pointer), off the offset in
\* it; code is the offset of codeAccessBase in myCodeAccessBase (-1 for null).
PageAccess(type) == [type |-> type, buf |-> "none", off |-> 0, code |-> -1]
\* A page no cartridge has installed.
NoAccess == [type |-> "NONE", buf |-> "none", off |-> 0, code |-> -1]

\* A loop of mySystem->setPageAccess(addr, Access(addr)) over the addresses
\* addr = start; addr < start + size; addr += PAGE_SIZE: iteration k sets the
\* page of start + k * PAGE_SIZE.
SetPages(pa, start, size, Access(_)) ==
  IF size <= 0 THEN pa
  ELSE LET first == PageOf(start)
           last == first + ((size - 1) \div PAGE_SIZE)
       IN [p \in Pages |->
             IF p >= first /\ p <= last
             THEN Access(start + (p - first) * PAGE_SIZE)
             ELSE pa[p]]

\* A Serializer nothing has been saved to.
NoStream == [kind |-> "none"]

\* Bytes a random source, or memory never written, may hold.
RandomBytes == {255}
AnyByte == 0 .. 255

\* The byte at offset i of the ROM image the cartridge was built from.
ImageByte(i) == (i + 7 * (i \div 512)) % 256

\* The cartridge object and the page table as one record, so that the calls
\* a method makes can be composed.
CartState ==
  [myBankLocked |-> myBankLocked, myBankChanged |-> myBankChanged,
   bankInUse |-> bankInUse, myCurrentSlice |-> myCurrentSlice,
   myCurrentRAM |-> myCurrentRAM, myBankOffset |-> myBankOffset,
   myRAM |-> myRAM, myParameter |-> myParameter,
   myParameterPointer |-> myParameterPointer,
   myCounters |-> myCounters, myFractionalCounters |-> myFractionalCounters,
   myFractionalIncrements |-> myFractionalIncrements,
   fetchLog |-> << >>, fetchSteps |-> fetchSteps,
   pageAccess |-> pageAccess, ret |-> cartRet, thrown |-> FALSE, failAt |-> 0,
   tiaPoke |-> << >>]

\* The cartridge is left in state s after operation op.
CartFields(op, s) ==
  /\ cartOp' = op
  /\ myBankLocked' = s.myBankLocked
  /\ myBankChanged' = s.myBankChanged
  /\ bankInUse' = s.bankInUse
  /\ myCurrentSlice' = s.myCurrentSlice
  /\ myCurrentRAM' = s.myCurrentRAM
  /\ myBankOffset' = s.myBankOffset
  /\ myRAM' = s.myRAM
  /\ myParameter' = s.myParameter
  /\ myParameterPointer' = s.myParameterPointer
  /\ myCounters' = s.myCounters
  /\ myFractionalCounters' = s.myFractionalCounters
  /\ myFractionalIncrements' = s.myFractionalIncrements
  /\ fetchLog' = s.fetchLog
  /\ fetchSteps' = s.fetchSteps
  /\ pageAccess' = s.pageAccess
  /\ cartRet' = s.ret
  /\ cartThrown' = s.thrown
  /\ cartFailAt' = s.failAt
  /\ tiaPoke' = s.tiaPoke

\* The step of an operation that touches nothing but the cartridge.
CartStep(op, s) ==
  /\ CartFields(op, s)
  /\ UNCHANGED <<scheme, myStream, aqVars, rngVars, cpuVars, tiaVars, stackVars>>

\* The cartridge state without the value the last call returned.
StateOf(s) == [s EXCEPT !.ret = FALSE]

\* Cartridge::pokeRAM: dest = value.
PokeRAM(s, offset, value) ==
  [s EXCEPT !.myRAM = [o \in DOMAIN s.myRAM \cup {offset} |->
                         IF o = offset THEN value ELSE s.myRAM[o]]]

\* Cartridge::peekRAM: a read of a write port returns a random value and,
\* unless the banks are locked, stores it in the cell.
PeekRAM(s, offset, value) ==
  IF s.myBankLocked THEN s ELSE PokeRAM(s, offset, value)

\* Cartridge::initializeRAM: every cell zero or random again.
InitializeRAM(s) == [s EXCEPT !.myRAM = << >>]

(***************************************************************************)
(*                           Cartridge3EPlus                               *)
(***************************************************************************)

\* Number of 1K banks in the 3E+ ROM image, and its size mySize.
NumBanks3E == 2
Size3E == NumBanks3E * 1024
\* The bank numbers written to the hotspots run from 0 to this.
MaxHotspotBank3E == 2

BANK_SWITCH_HOTSPOT_RAM == 62
BANK_SWITCH_HOTSPOT_ROM == 63
BANK_BITS == 6
BIT_BANK_MASK == 63
BITMASK_LOWERUPPER == 256
BITMASK_ROMRAM == 512
RAM_BANK_TO_POWER == 9
RAM_BANK_SIZE == 512
ROM_BANK_TO_POWER == 10
ROM_BANK_SIZE == 1024
RAM_WRITE_OFFSET == 512
BANK_UNDEFINED == 32768

\* x >> n and x & mask for a mask 2^k - 1, and the test of one bit.
Shr(x, n) == x \div (2 ^ n)
Low(x, mask) == x % (mask + 1)
HasBit(x, bit) == (x \div bit) % 2 = 1

\* Cartridge3EPlus::bankCount
BankCount3E == Shr(Size3E, 10)

\* Cartridge3EPlus::bankROMSlot
BankROMSlotNoSegment(s, bank) ==
  LET currentBank == Low(bank, BIT_BANK_MASK)
      upper == HasBit(bank, BITMASK_LOWERUPPER)
      startCurrentBank == currentBank * (2 ^ ROM_BANK_TO_POWER)
      start == 4096 + (IF upper THEN ROM_BANK_SIZE \div 2 ELSE 0)
      Access(addr) == [type |-> "READ", buf |-> "image",
                       off |-> startCurrentBank + Low(addr, ROM_BANK_SIZE - 1),
                       code |-> startCurrentBank + Low(addr, ROM_BANK_SIZE - 1)]
  IN [s EXCEPT !.bankInUse[IF upper THEN 1 ELSE 0] = bank,
               !.pageAccess = SetPages(s.pageAccess, start, ROM_BANK_SIZE \div 2, Access)]
BankROMSlot(s, bank) ==
  LET bankNumber == Low(Shr(bank, BANK_BITS), 3)
      currentBank == Low(bank, BIT_BANK_MASK)
      upper == HasBit(bank, BITMASK_LOWERUPPER)
      startCurrentBank == currentBank * (2 ^ ROM_BANK_TO_POWER)
      start == 4096 + bankNumber * (2 ^ ROM_BANK_TO_POWER)
                 + (IF upper THEN ROM_BANK_SIZE \div 2 ELSE 0)
      Access(addr) == [type |-> "READ", buf |-> "image",
                       off |-> startCurrentBank + Low(addr, ROM_BANK_SIZE - 1),
                       code |-> startCurrentBank + Low(addr, ROM_BANK_SIZE - 1)]
  IN [s EXCEPT !.bankInUse[bankNumber * 2 + (IF upper THEN 1 ELSE 0)] = bank,
               !.pageAccess = SetPages(s.pageAccess, start, ROM_BANK_SIZE \div 2, Access)]

\* Cartridge3EPlus::bankROM
BankROMIgnoresLock(s, bank) ==
  [BankROMSlot(BankROMSlot(s, bank), bank + BITMASK_LOWERUPPER)
     EXCEPT !.myBankChanged = TRUE, !.ret = TRUE]
BankROM(s, bank) ==
  IF s.myBankLocked
  THEN [s EXCEPT !.ret = FALSE]
  ELSE [BankROMSlot(BankROMSlot(s, bank), bank + BITMASK_LOWERUPPER)
          EXCEPT !.myBankChanged = TRUE, !.ret = TRUE]

\* Cartridge3EPlus::bankRAMSlot
BankRAMSlotReadEntry(s, bank) ==
  LET bankNumber == Low(Shr(bank, BANK_BITS), 3)
      currentBank == Low(bank, BIT_BANK_MASK)
      upper == HasBit(bank, BITMASK_LOWERUPPER)
      startCurrentBank == currentBank * (2 ^ RAM_BANK_TO_POWER)
      start == 4096 + bankNumber * (2 ^ (RAM_BANK_TO_POWER + 1))
                 + (IF upper THEN RAM_WRITE_OFFSET ELSE 0)
      Access(addr) ==
        [type |-> IF upper THEN "WRITE" ELSE "READ",
         buf |-> IF upper THEN "none" ELSE "ram",
         off |-> IF upper THEN 0 ELSE startCurrentBank + Low(addr, RAM_BANK_SIZE - 1),
         code |-> Size3E + startCurrentBank + Low(addr, RAM_BANK_SIZE - 1)]
  IN [s EXCEPT !.bankInUse[bankNumber * 2] = bank,
               !.pageAccess = SetPages(s.pageAccess, start, RAM_BANK_SIZE, Access)]
BankRAMSlot(s, bank) ==
  LET bankNumber == Low(Shr(bank, BANK_BITS), 3)
      currentBank == Low(bank, BIT_BANK_MASK)
      upper == HasBit(bank, BITMASK_LOWERUPPER)
      startCurrentBank == currentBank * (2 ^ RAM_BANK_TO_POWER)
      start == 4096 + bankNumber * (2 ^ (RAM_BANK_TO_POWER + 1))
                 + (IF upper THEN RAM_WRITE_OFFSET ELSE 0)
      Access(addr) ==
        [type |-> IF upper THEN "WRITE" ELSE "READ",
         buf |-> IF upper THEN "none" ELSE "ram",
         off |-> IF upper THEN 0 ELSE startCurrentBank + Low(addr, RAM_BANK_SIZE - 1),
         code |-> Size3E + startCurrentBank + Low(addr, RAM_BANK_SIZE - 1)]
  IN [s EXCEPT !.bankInUse[bankNumber * 2 + (IF upper THEN 1 ELSE 0)] = bank,
               !.pageAccess = SetPages(s.pageAccess, start, RAM_BANK_SIZE, Access)]

\* Cartridge3EPlus::bankRAM
BankRAM(s, bank) ==
  IF s.myBankLocked
  THEN [s EXCEPT !.ret = FALSE]
  ELSE [BankRAMSlot(BankRAMSlot(s, bank + BITMASK_ROMRAM),
                    bank + BITMASK_ROMRAM + BITMASK_LOWERUPPER)
          EXCEPT !.myBankChanged = TRUE, !.ret = TRUE]

\* Cartridge3EPlus::initializeBankState, from slot b on.
RECURSIVE InitializeBankStateFrom(_, _)
InitializeBankStateFrom(s, b) ==
  IF b >= 8 THEN s
  ELSE LET t == IF s.bankInUse[b] = BANK_UNDEFINED
                THEN [s EXCEPT !.pageAccess =
                        SetPages(s.pageAccess, 4096 + b * (2 ^ RAM_BANK_TO_POWER),
                                 RAM_BANK_SIZE, LAMBDA addr : PageAccess("READ"))]
                ELSE IF HasBit(s.bankInUse[b], BITMASK_ROMRAM)
                THEN BankRAMSlot(s, s.bankInUse[b])
                ELSE BankROMSlot(s, s.bankInUse[b])
       IN InitializeBankStateFrom(t, b + 1)
InitializeBankState(s) == InitializeBankStateFrom(s, 0)

\* The body shared by Cartridge3EPlus::install and ::reset: all slots
\* undefined, then banks 0 of the image into segments 0 and 3.
StartupBanks3E(s) ==
  LET u == [s EXCEPT !.bankInUse = [b \in 0 .. 7 |-> BANK_UNDEFINED]]
  IN BankROM(BankROM(InitializeBankState(u), 0), 3 * (2 ^ BANK_BITS))

\* Cartridge3EPlus::install
Install3E ==
  /\ scheme = "3E+"
  /\ ~installed
  /\ installed' = TRUE
  /\ LET s == [CartState EXCEPT !.pageAccess =
                 SetPages(pageAccess, 0, 64, LAMBDA addr : PageAccess("READWRITE"))]
     IN CartStep("install", [StartupBanks3E(s) EXCEPT !.ret = cartRet])

\* Cartridge3EPlus::reset
Reset3E ==
  /\ scheme = "3E+"
  /\ installed
  /\ UNCHANGED installed
  /\ CartStep("reset", [StartupBanks3E(InitializeRAM(CartState)) EXCEPT !.ret = cartRet])

\* Cartridge3EPlus::getBank
GetBank3E(addr) == bankInUse[Shr(Low(addr, 4095), 10)]

\* Cartridge3EPlus::peek: the state it leaves when the read of a RAM port
\* draws the random value rnd.
Peek3EStateUndefinedAsRAM(s, address, rnd) ==
  LET bank == Low(Shr(Low(address, 4095), ROM_BANK_TO_POWER - 1), 7)
      imageBank == s.bankInUse[bank]
  IN IF imageBank = BANK_UNDEFINED \/ HasBit(imageBank, BITMASK_ROMRAM)
     THEN PeekRAM(s, Low(imageBank, BIT_BANK_MASK) * (2 ^ RAM_BANK_TO_POWER)
                       + Low(address, RAM_BANK_SIZE - 1), rnd)
     ELSE s
Peek3EState(s, address, rnd) ==
  LET bank == Low(Shr(Low(address, 4095), ROM_BANK_TO_POWER - 1), 7)
      imageBank == s.bankInUse[bank]
  IN IF imageBank # BANK_UNDEFINED /\ HasBit(imageBank, BITMASK_ROMRAM)
     THEN PeekRAM(s, Low(imageBank, BIT_BANK_MASK) * (2 ^ RAM_BANK_TO_POWER)
                       + Low(address, RAM_BANK_SIZE - 1), rnd)
     ELSE s

\* Cartridge3EPlus::poke; tiaChanged is what TIA::poke returns.  In
\* changed = changed || mySystem->tia().poke(address, value) the right
\* operand is evaluated, and TIA::poke called, only when changed is false;
\* tiaPoke is the list of the addresses TIA::poke was called with.
Poke3EState(s, address, value, tiaChanged) ==
  LET s1 == IF address = BANK_SWITCH_HOTSPOT_RAM THEN BankRAM(s, value)
            ELSE IF address = BANK_SWITCH_HOTSPOT_ROM THEN BankROM(s, value)
            ELSE [s EXCEPT !.ret = FALSE]
      changed == s1.ret
  IN IF ~HasBit(address, 4096)
     THEN IF changed
          THEN s1
          ELSE [s1 EXCEPT !.ret = tiaChanged, !.tiaPoke = <<address>>]
     ELSE LET bankNumber == Low(Shr(address, RAM_BANK_TO_POWER), 7)
              whichBankIsThere == s1.bankInUse[bankNumber]
          IN IF HasBit(whichBankIsThere, BITMASK_ROMRAM)
             THEN [PokeRAM(s1, Low(whichBankIsThere, BIT_BANK_MASK) * (2 ^ RAM_BANK_TO_POWER)
                                 + Low(address, RAM_BANK_SIZE - 1), value)
                     EXCEPT !.ret = TRUE]
             ELSE s1

(***************************************************************************)
(*                     CartridgeMNetwork (E7, 16K)                         *)
(***************************************************************************)

\* CartridgeMNetwork::BANK_SIZE, and mySize of the 16K E7 image.
BANK_SIZE == 2048
SizeMN == 16384

\* CartridgeMNetwork::bankCount and ::romSize
BankCountMN == Shr(SizeMN, 11)
RomSizeMN == BankCountMN * BANK_SIZE
\* myRAMSlice = bankCount() - 1, set by initialize().
RAMSliceMN == BankCountMN - 1

\* A value stored in a uInt16.
U16(x) == x % 65536

\* CartridgeMNetwork::setAccess; buf names directData.
SetAccessUnmasked(pa, addrFrom, size, directOffset, buf, codeOffset, type, addrMask) ==
  LET Access(addr) ==
        [type |-> type,
         buf |-> IF type = "READ" THEN buf ELSE "none",
         off |-> IF type = "READ" THEN U16(directOffset) + addr ELSE 0,
         code |-> U16(codeOffset) + addr]
  IN SetPages(pa, addrFrom, size, Access)
SetAccess(pa, addrFrom, size, directOffset, buf, codeOffset, type, addrMask) ==
  LET mask == IF addrMask = 0 THEN size - 1 ELSE addrMask
      Access(addr) ==
        [type |-> type,
         buf |-> IF type = "READ" THEN buf ELSE "none",
         off |-> IF type = "READ" THEN U16(directOffset) + Low(addr, mask) ELSE 0,
         code |-> U16(codeOffset) + Low(addr, mask)]
  IN SetPages(pa, addrFrom, size, Access)

\* CartridgeMNetwork::bankRAM
BankRAMMNResetsSlice(s, bank) ==
  IF s.myBankLocked THEN s
  ELSE LET offset == U16(bank * 256)
           p1 == SetAccess(s.pageAccess, 6144, 256, 1024 + offset, "ram",
                           RomSizeMN + BANK_SIZE \div 2, "WRITE", 0)
           p2 == SetAccess(p1, 6400, 256, 1024 + offset, "ram",
                           RomSizeMN + BANK_SIZE \div 2, "READ", 0)
       IN [s EXCEPT !.myCurrentRAM = bank, !.myCurrentSlice[0] = 0,
                    !.pageAccess = p2, !.myBankChanged = TRUE]
BankRAMMN(s, bank) ==
  IF s.myBankLocked THEN s
  ELSE LET offset == U16(bank * 256)
           p1 == SetAccess(s.pageAccess, 6144, 256, 1024 + offset, "ram",
                           RomSizeMN + BANK_SIZE \div 2, "WRITE", 0)
           p2 == SetAccess(p1, 6400, 256, 1024 + offset, "ram",
                           RomSizeMN + BANK_SIZE \div 2, "READ", 0)
       IN [s EXCEPT !.myCurrentRAM = bank, !.pageAccess = p2, !.myBankChanged = TRUE]

\* CartridgeMNetwork::bank
BankMNUpperSegment(s, slice) ==
  IF s.myBankLocked THEN [s EXCEPT !.ret = FALSE]
  ELSE [s EXCEPT !.myCurrentSlice[1] = slice,
                 !.pageAccess = SetAccess(s.pageAccess, 6144, BANK_SIZE, U16(slice * 2048),
                                          "image", U16(slice * 2048), "READ", 0),
                 !.myBankChanged = TRUE, !.ret = TRUE]
BankMN(s, slice) ==
  IF s.myBankLocked THEN [s EXCEPT !.ret = FALSE]
  ELSE LET offset == U16(slice * 2048)
           pa == IF slice # RAMSliceMN
                 THEN SetAccess(s.pageAccess, 4096, BANK_SIZE, offset, "image",
                                offset, "READ", 0)
                 ELSE SetAccess(SetAccess(s.pageAccess, 4096, BANK_SIZE \div 2, 0, "ram",
                                          RomSizeMN, "WRITE", 0),
                                4096 + BANK_SIZE \div 2, BANK_SIZE \div 2, 0, "ram",
                                RomSizeMN, "READ", 0)
       IN [s EXCEPT !.myCurrentSlice[0] = slice, !.pageAccess = pa,
                    !.myBankChanged = TRUE, !.ret = TRUE]

\* CartridgeMNetwork::getBank
GetBankMN(addr) == myCurrentSlice[Shr(Low(addr, 4095), 11)]

\* CartridgeE7::checkSwitchBank: 0FE0-0FE7 select the slice of the lower
\* segment, 0FE8-0FEB the 256 byte RAM bank.
CheckSwitchBank(s, address) ==
  IF address >= 4064 /\ address <= 4071 THEN BankMN(s, Low(address, 7))
  ELSE IF address >= 4072 /\ address <= 4075 THEN BankRAMMN(s, Low(address, 3))
  ELSE s

\* The size argument install() passes for the fixed segment:
\* 0x1FE0U & (~System::PAGE_MASK - 0x1A00), in 32-bit arithmetic 0x05C0.
FixedSegmentSize == 1472

\* CartridgeMNetwork::install
InstallMNState(s) ==
  LET hot == SetPages(s.pageAccess, 8128, 64,
                      LAMBDA addr : [PageAccess("READ") EXCEPT !.code = 8128])
      fixed == SetAccess(hot, 6656, FixedSegmentSize, RAMSliceMN * BANK_SIZE, "image",
                         RAMSliceMN * BANK_SIZE, "READ", BANK_SIZE - 1)
      s1 == [s EXCEPT !.pageAccess = fixed, !.myCurrentSlice[1] = RAMSliceMN]
  IN BankMN(BankRAMMN(s1, 0), 0)

InstallMN ==
  /\ scheme = "E7"
  /\ ~installed
  /\ installed' = TRUE
  /\ CartStep("install", [InstallMNState(CartState) EXCEPT !.ret = cartRet])

\* CartridgeMNetwork::reset; ramBank and startBank are what the random
\* source and initializeStartBank(0) give.
ResetMN(ramBank, startBank) ==
  /\ scheme = "E7"
  /\ installed
  /\ UNCHANGED installed
  /\ LET s == BankMN(BankRAMMN(InitializeRAM(CartState), ramBank), startBank)
     IN CartStep("reset", [s EXCEPT !.myBankChanged = TRUE, !.ret = cartRet])

\* CartridgeMNetwork::peek: the state it leaves.
PeekMNState(s, addr, rnd) ==
  LET address == Low(addr, 4095)
      s1 == CheckSwitchBank(s, address)
  IN IF s1.myCurrentSlice[0] = RAMSliceMN /\ address < BANK_SIZE \div 2
     THEN PeekRAM(s1, Low(address, BANK_SIZE \div 2 - 1), rnd)
     ELSE IF address >= 2048 /\ address <= 2303
     THEN PeekRAM(s1, 1024 + s1.myCurrentRAM * 256 + Low(address, 255), rnd)
     ELSE s1

\* CartridgeMNetwork::poke
PokeMNState(s, addr, value) ==
  LET address == Low(addr, 4095)
      s1 == CheckSwitchBank(s, address)
  IN IF s1.myCurrentSlice[0] = RAMSliceMN /\ address < BANK_SIZE \div 2
     THEN [PokeRAM(s1, Low(address, BANK_SIZE \div 2 - 1), value) EXCEPT !.ret = TRUE]
     ELSE IF address >= 2048 /\ address <= 2303
     THEN [PokeRAM(s1, 1024 + s1.myCurrentRAM * 256 + Low(address, 255), value)
             EXCEPT !.ret = TRUE]
     ELSE [s1 EXCEPT !.ret = FALSE]

(***************************************************************************)
(*                          CartridgeDPCPlus                               *)
(***************************************************************************)

\* CartridgeDPCPlus::bankCount
BankCountDPC == 6

\* CartridgeDPCPlus::bank
BankDPC(s, bank) ==
  IF s.myBankLocked THEN [s EXCEPT !.ret = FALSE]
  ELSE LET offset == U16(bank * 4096)
           Access(addr) == [PageAccess("READ") EXCEPT !.code = offset + Low(addr, 4095)]
       IN [s EXCEPT !.myBankOffset = offset,
                    !.pageAccess = SetPages(s.pageAccess, 4224, 8192 - 4224, Access),
                    !.myBankChanged = TRUE, !.ret = TRUE]

\* CartridgeDPCPlus::getBank
GetBankDPC == Shr(myBankOffset, 12)

\* The bank a DPC+ hotspot 0FF6-0FFB selects.
HotspotBankDPC(s, address) ==
  IF address >= 4086 /\ address <= 4091 THEN BankDPC(s, address - 4086) ELSE s

\* CartridgeDPCPlus::install
InstallDPC ==
  /\ scheme = "DPC+"
  /\ ~installed
  /\ installed' = TRUE
  /\ LET s == [CartState EXCEPT !.pageAccess =
                 SetPages(pageAccess, 4096, 128, LAMBDA addr : PageAccess("READ"))]
     IN CartStep("install", [BankDPC(s, 0) EXCEPT !.ret = cartRet])

\* CartridgeDPCPlus::peek of an address outside the DPC+ registers (fast
\* fetch off): with the banks locked nothing changes, else the hotspots act.
PeekDPCState(s, addr) ==
  IF s.myBankLocked THEN s ELSE HotspotBankDPC(s, Low(addr, 4095))

\* CartridgeDPCPlus::poke of an address outside the DPC+ registers.
PokeDPCState(s, addr) == [HotspotBankDPC(s, Low(addr, 4095)) EXCEPT !.ret = FALSE]

(***************************************************************************)
(*            Bus accesses, direct calls and the specification             *)
(***************************************************************************)

\* The bytes a buffer may hold at an offset: the image byte, the RAM cell
\* if written since reset; anything for unwritten RAM or outside the image.
BufferBytes(s, buf, off) ==
  IF buf = "image"
  THEN IF off < (IF scheme = "3E+" THEN Size3E ELSE SizeMN)
       THEN {ImageByte(off)} ELSE AnyByte
  ELSE IF off \in DOMAIN s.myRAM THEN {s.myRAM[off]} ELSE AnyByte

\* What Cartridge3EPlus::peek may return: a random byte for an undefined
\* slot or a RAM port, 0 otherwise.
DevicePeek3E(s, addr) ==
  LET imageBank == s.bankInUse[Low(Shr(Low(addr, 4095), ROM_BANK_TO_POWER - 1), 7)]
  IN IF imageBank = BANK_UNDEFINED \/ HasBit(imageBank, BITMASK_ROMRAM)
     THEN AnyByte ELSE {0}

\* What CartridgeMNetwork::peek may return.
DevicePeekMN(s, addr) ==
  LET address == Low(addr, 4095)
      s1 == CheckSwitchBank(s, address)
  IN IF s1.myCurrentSlice[0] = RAMSliceMN /\ address < BANK_SIZE \div 2
     THEN AnyByte
     ELSE IF address >= 2048 /\ address <= 2303
     THEN AnyByte
     ELSE BufferBytes(s, "image", s1.myCurrentSlice[Shr(address, 11)] * 2048
                                    + Low(address, BANK_SIZE - 1))

\* System::peek in cartridge state s: through directPeekBase when the page
\* has one, else the device's peek.
PeekValues(s, addr) ==
  LET pg == s.pageAccess[PageOf(addr)]
  IN IF pg.buf # "none"
     THEN BufferBytes(s, pg.buf, pg.off + (addr % PAGE_SIZE))
     ELSE IF scheme = "3E+" THEN DevicePeek3E(s, addr)
     ELSE IF scheme = "E7" THEN DevicePeekMN(s, addr)
     ELSE AnyByte

\* The values written to the 3E+ hotspots: segment s in bits 6-7, bank b below.
HotspotValue(seg, b) == seg * (2 ^ BANK_BITS) + b
\* The segments switched through the hotspots.
Segments3E == {0, 1}
HotspotValues3E == {HotspotValue(seg, b) : seg \in Segments3E, b \in 0 .. MaxHotspotBank3E}
\* The RAM banks selected through the RAM hotspot.
RAMHotspotValues3E == {HotspotValue(seg, 0) : seg \in Segments3E}
\* The data bytes written.
DataValues == {90}

\* Addresses accessed: 3E+: a TIA register, the hotspots, and in segments
\* 0 and 1 the first byte of each 512 byte half.
Addrs3E == {2, BANK_SWITCH_HOTSPOT_RAM, BANK_SWITCH_HOTSPOT_ROM, 4096, 4608, 5120, 5632}
\* Reads treat the hotspots like any other address of the TIA space.
PeekAddrs3E == Addrs3E \ {BANK_SWITCH_HOTSPOT_RAM, BANK_SWITCH_HOTSPOT_ROM}
\* E7: the slices and 256 byte RAM banks selected, by hotspot or by call.
SlicesMN == {0, 1, RAMSliceMN}
RAMBanksMN == {0, 1}
\* E7: their hotspots 1FE0+slice and 1FE8+bank, both RAM write ports, a read
\* port, ROM in both segments.
AddrsMN == {8160 + slice : slice \in SlicesMN} \cup {8168 + bank : bank \in RAMBanksMN}
             \cup {4096, 5120, 6144, 6400, 6656, 8128}
\* DPC+: the hotspots 1FF6-1FFB and two ROM addresses.
AddrsDPC == (8182 .. 8187) \cup {4224, 8188}

\* Cartridge::lockBank and ::unlockBank
LockBank ==
  /\ installed
  /\ ~myBankLocked
  /\ UNCHANGED installed
  /\ CartStep("lock", [CartState EXCEPT !.myBankLocked = TRUE])

UnlockBank ==
  /\ installed
  /\ myBankLocked
  /\ UNCHANGED installed
  /\ CartStep("unlock", [CartState EXCEPT !.myBankLocked = FALSE])

\* System::peek(addr) with a 3E+ cartridge.
Peek3E(addr, rnd) ==
  /\ scheme = "3E+"
  /\ installed
  /\ UNCHANGED installed
  /\ IF pageAccess[PageOf(addr)].buf # "none"
     THEN CartStep("peek", CartState)
     ELSE CartStep("peek", [Peek3EState(CartState, addr, rnd) EXCEPT !.ret = cartRet])

\* System::poke(addr, value) with a 3E+ cartridge.
Poke3E(addr, value, tiaChanged) ==
  /\ scheme = "3E+"
  /\ installed
  /\ UNCHANGED installed
  /\ value \in (IF addr = BANK_SWITCH_HOTSPOT_ROM THEN HotspotValues3E
                ELSE IF addr = BANK_SWITCH_HOTSPOT_RAM THEN RAMHotspotValues3E
                ELSE DataValues)
  /\ tiaChanged => ~HasBit(addr, 4096)
  /\ CartStep("poke", Poke3EState(CartState, addr, value, tiaChanged))

\* Direct calls of Cartridge3EPlus::bankROM and ::bankRAM.
CallBankROM(value) ==
  /\ scheme = "3E+"
  /\ installed
  /\ UNCHANGED installed
  /\ CartStep("bankROM", BankROM(CartState, value))

CallBankRAM(value) ==
  /\ scheme = "3E+"
  /\ installed
  /\ UNCHANGED installed
  /\ CartStep("bankRAM", BankRAM(CartState, value))

\* System::peek(addr) with an E7 cartridge.
PeekMN(addr, rnd) ==
  /\ scheme = "E7"
  /\ installed
  /\ UNCHANGED installed
  /\ IF pageAccess[PageOf(addr)].buf # "none"
     THEN CartStep("peek", CartState)
     ELSE CartStep("peek", [PeekMNState(CartState, addr, rnd) EXCEPT !.ret = cartRet])

\* System::poke(addr, value) with an E7 cartridge.
PokeMN(addr, value) ==
  /\ scheme = "E7"
  /\ installed
  /\ UNCHANGED installed
  /\ CartStep("poke", PokeMNState(CartState, addr, value))

\* Direct calls of CartridgeMNetwork::bank and ::bankRAM.
CallBankMN(slice) ==
  /\ scheme = "E7"
  /\ installed
  /\ UNCHANGED installed
  /\ CartStep("bank", BankMN(CartState, slice))

CallBankRAMMN(bank) ==
  /\ scheme = "E7"
  /\ installed
  /\ UNCHANGED installed
  /\ CartStep("bankRAM", BankRAMMN(CartState, bank))

\* System::peek(addr) and System::poke(addr, value) with a DPC+ cartridge.
PeekDPC(addr) ==
  /\ scheme = "DPC+"
  /\ installed
  /\ UNCHANGED installed
  /\ CartStep("peek", [PeekDPCState(CartState, addr) EXCEPT !.ret = cartRet])

PokeDPC(addr) ==
  /\ scheme = "DPC+"
  /\ installed
  /\ UNCHANGED installed
  /\ CartStep("poke", PokeDPCState(CartState, addr))

\* A direct call of CartridgeDPCPlus::bank.
CallBankDPC(bank) ==
  /\ scheme = "DPC+"
  /\ installed
  /\ UNCHANGED installed
  /\ CartStep("bank", BankDPC(CartState, bank))

(***************************************************************************)
(*                 The DPC+ random number generator                        *)
(***************************************************************************)

\* A uInt32 is modelled by the set of the positions of its one bits, so that
\* the shifts, which drop the bits leaving the word, and the bitwise
\* operators are computed bit by bit.
Word32 == 0 .. 31
UInt32(high, low) ==
  {i \in 0 .. 15 : HasBit(low, 2 ^ i)} \cup {16 + i : i \in {j \in 0 .. 15 : HasBit(high, 2 ^ j)}}
ShiftLeft32(r, n) == {i + n : i \in r} \cap Word32
ShiftRight32(r, n) == {i - n : i \in r} \cap Word32
Or32(a, b) == a \cup b
Xor32(a, b) == (a \ b) \cup (b \ a)

\* 0x10adab1e, the feedback of the LFSR, and 0x2B435044 ("DPC+"), its value
\* after setInitialState().
LFSRFeedback == UInt32(4269, 43806)
LFSRInitial == UInt32(11075, 20548)

\* CartridgeDPCPlus::setInitialState: the data fetcher registers.
SetInitialState(s) ==
  [s EXCEPT !.myCounters = [i \in 0 .. 7 |-> 0],
            !.myFractionalCounters = [i \in 0 .. 7 |-> 0],
            !.myFractionalIncrements = [i \in 0 .. 7 |-> 0]]

\* CartridgeDPCPlus::reset: setInitialState(), initializeStartBank(5),
\* bank(startBank()).
ResetDPC(startBank) ==
  /\ scheme = "DPC+"
  /\ installed
  /\ UNCHANGED installed
  /\ CartFields("reset", [BankDPC(SetInitialState(CartState), startBank) EXCEPT !.ret = cartRet])
  /\ myRandomNumber' = LFSRInitial
  /\ UNCHANGED <<rngSeed, rngForward, rngBackward, scheme, myStream, aqVars, cpuVars,
                 tiaVars, stackVars>>

\* CartridgeDPCPlus::priorClockRandomNumberGenerator without the feedback.
priorClockWithoutFeedback(r) ==
  Or32(ShiftLeft32(r, 11), ShiftRight32(r, 21))

\* CartridgeDPCPlus::clockRandomNumberGenerator
clockRandomNumberGenerator(r) ==
  Xor32(IF 10 \in r THEN LFSRFeedback ELSE {},
        Or32(ShiftRight32(r, 11), ShiftLeft32(r, 21)))

\* CartridgeDPCPlus::priorClockRandomNumberGenerator
priorClockRandomNumberGenerator(r) ==
  IF 31 \in r
  THEN Or32(ShiftLeft32(Xor32(LFSRFeedback, r), 11),
            ShiftRight32(Xor32(LFSRFeedback, r), 21))
  ELSE Or32(ShiftLeft32(r, 11), ShiftRight32(r, 21))

\* The register values the generator is started from: RWRITE0-3 can store
\* any value.
Seeds == {LFSRInitial, LFSRFeedback, {}, {0}, {10}, {31}, {10, 31}, Word32,
          UInt32(65535, 0), UInt32(0, 65535), UInt32(43690, 21845), UInt32(4660, 22136)}
\* The generator is clocked at most this many times in each direction.
MaxClocks == 3

\* CartridgeDPCPlus::peek of RANDOM0NEXT on the unlocked cartridge.
PeekRANDOM0NEXT ==
  /\ scheme = "DPC+"
  /\ ~myBankLocked
  /\ rngForward < MaxClocks
  /\ myRandomNumber' = clockRandomNumberGenerator(myRandomNumber)
  /\ rngForward' = rngForward + 1
  /\ UNCHANGED <<rngSeed, rngBackward, aqVars, cartVars, cpuVars, tiaVars, stackVars>>

\* CartridgeDPCPlus::peek of RANDOM0PRIOR on the unlocked cartridge.
PeekRANDOM0PRIOR ==
  /\ scheme = "DPC+"
  /\ ~myBankLocked
  /\ rngBackward < MaxClocks
  /\ myRandomNumber' = priorClockRandomNumberGenerator(myRandomNumber)
  /\ rngBackward' = rngBackward + 1
  /\ UNCHANGED <<rngSeed, rngForward, aqVars, cartVars, cpuVars, tiaVars, stackVars>>

NextRandom ==
  \/ PeekRANDOM0NEXT
  \/ PeekRANDOM0PRIOR

\* The bytes written to RWRITE0-3.
RWriteValues == {0}
\* The bits of byte k of a uInt32, and value << (8 * k).
ByteBits(k) == (8 * k) .. (8 * k + 7)
ByteAt(value, k) == {8 * k + i : i \in {j \in 0 .. 7 : HasBit(value, 2 ^ j)}}

\* CartridgeDPCPlus::poke of RRESET.
PokeRRESET ==
  /\ scheme = "DPC+"
  /\ myRandomNumber' = LFSRInitial
  /\ UNCHANGED <<rngSeed, rngForward, rngBackward, aqVars, cartVars, cpuVars, tiaVars, stackVars>>

\* CartridgeDPCPlus::poke of RWRITE0 + k: byte k of the register is replaced.
PokeRWRITE(k, value) ==
  /\ scheme = "DPC+"
  /\ myRandomNumber' = Or32(myRandomNumber \ ByteBits(k), ByteAt(value, k))
  /\ UNCHANGED <<rngSeed, rngForward, rngBackward, aqVars, cartVars, cpuVars, tiaVars, stackVars>>

\* The generator under every access that changes it.
NextLFSR ==
  \/ PeekRANDOM0NEXT
  \/ PeekRANDOM0PRIOR
  \/ PokeRRESET
  \/ \E k \in 0 .. 3, value \in RWriteValues : PokeRWRITE(k, value)

(***************************************************************************)
(*                          The processor, M6502                           *)
(***************************************************************************)

\* The bits of myExecutionStatus.
StopExecutionBit == "StopExecutionBit"
FatalErrorBit == "FatalErrorBit"
MaskableInterruptBit == "MaskableInterruptBit"
NonmaskableInterruptBit == "NonmaskableInterruptBit"

\* System cycles per processor cycle.
SYSTEM_CYCLES_PER_CPU == 1

\* The opcodes of the program below that have an entry in the instruction
\* table: NOP, STA zero page, JMP absolute and JSR.  Every other byte is
\* taken to have none.
NOP == 234
STA_ZP == 133
JMP_ABS == 76
JSR == 32
InstructionEntries == {NOP, STA_ZP, JMP_ABS, JSR}

\* The device registers the program writes: a write to WSYNC makes the TIA
\* call requestHalt(), a write to VSYNC ends the frame and makes it call
\* stop().
VSYNC == 0
WSYNC == 2

\* The program in ROM, from the address the reset vector holds:
\*   0: STA WSYNC   2: NOP   3: (no instruction)   4: NOP
\*   5: STA VSYNC   7: JMP 0
\* the code the interrupt vectors point to:
\*  10: JSR 14     13: NOP   14: NOP   15: JMP 0      (non-maskable)
\*  18: JMP 4      21: NOP ...                        (maskable)
\* and the vectors, which a ROM of 32 bytes mirrors to 0xFFFA - 0xFFFF:
\*  26: 10 (NMI)   28: 0 (reset)   30: 18 (IRQ)
ResetVector == 0
ROM == <<STA_ZP, WSYNC, NOP, 2, NOP, STA_ZP, VSYNC, JMP_ABS, 0, 0,
         JSR, 14, 0, NOP, NOP, JMP_ABS, 0, 0,
         JMP_ABS, 4, 0, NOP, NOP, NOP, NOP, NOP,
         10, 0, ResetVector, 0, 18, 0>>
BusRead(address) == ROM[(address % Len(ROM)) + 1]
\* uInt16(mySystem->peek(a)) | (uInt16(mySystem->peek(a + 1)) << 8)
Vector(address) == BusRead(address) + 256 * BusRead(address + 1)

\* A DispatchResult nothing has been stored in, and what setOk, setFatal,
\* setMessage and setDebugger store.
NoResult ==
  [status |-> "invalid", cycles |-> 0, message |-> "", address |-> 0,
   wasReadTrap |-> FALSE]
SetOk(c) == [c EXCEPT !.result.status = "ok", !.result.cycles = c.currentCycles]
SetFatal(c) == [c EXCEPT !.result.status = "fatal", !.result.cycles = c.currentCycles]
SetMessage(c, message) == [c EXCEPT !.result.message = message]
SetDebugger(c, message, address, wasReadTrap) ==
  [c EXCEPT !.result = [status |-> "debugger", cycles |-> c.currentCycles,
                        message |-> message, address |-> address,
                        wasReadTrap |-> wasReadTrap]]

\* What the devices do during one execute(): the bus access of the call
\* (counted from 1) in which a device calls irq(), in which one calls nmi()
\* and in which one raises an EmulationWarning, and the instruction of the
\* call before which a conditional breakpoint holds; 0 for never.
NoEvents == [irq |-> 0, nmi |-> 0, warn |-> 0, cbp |-> 0]

\* The processor at the start of a call: its fields, the clock of the
\* System counted from the start of the call, and the history of the call.
CpuState ==
  [PC |-> PC, SP |-> SP, B |-> B, D |-> D, I |-> I,
   myExecutionStatus |-> myExecutionStatus,
   myHaltRequested |-> myHaltRequested,
   myBreakPoints |-> myBreakPoints, myReadTraps |-> myReadTraps,
   myWriteTraps |-> myWriteTraps,
   myJustHitReadTrapFlag |-> myJustHitReadTrapFlag,
   myJustHitWriteTrapFlag |-> myJustHitWriteTrapFlag,
   myHitTrapInfo |-> myHitTrapInfo, atLastBreakCycle |-> atLastBreakCycle,
   cycles |-> 0, currentCycles |-> 0, result |-> NoResult, ret |-> FALSE,
   thrown |-> FALSE, failAt |-> 0, trace |-> << >>, bus |-> 0, haltCycles |-> 0,
   haltOutstanding |-> haltOutstanding, haltRequests |-> haltRequests,
   haltHandled |-> haltHandled,
   ev |-> NoEvents, warning |-> FALSE, returned |-> FALSE, ins |-> 0,
   log |-> << >>, raised |-> cpuRaised, break |-> "none"]

\* The step of the processor that leaves it in state c.
CpuStep(op, c, number) ==
  /\ cpuOp' = op
  /\ PC' = c.PC
  /\ SP' = c.SP
  /\ B' = c.B
  /\ D' = c.D
  /\ I' = c.I
  /\ myExecutionStatus' = c.myExecutionStatus
  /\ myHaltRequested' = c.myHaltRequested
  /\ myBreakPoints' = c.myBreakPoints
  /\ myReadTraps' = c.myReadTraps
  /\ myWriteTraps' = c.myWriteTraps
  /\ myJustHitReadTrapFlag' = c.myJustHitReadTrapFlag
  /\ myJustHitWriteTrapFlag' = c.myJustHitWriteTrapFlag
  /\ myHitTrapInfo' = c.myHitTrapInfo
  /\ atLastBreakCycle' = c.atLastBreakCycle
  /\ cpuResult' = c.result
  /\ cpuResumes' = (cpuOp = "execute" /\ cpuResult.message = "warning")
  /\ cpuRet' = c.ret
  /\ cpuThrown' = c.thrown
  /\ cpuFailAt' = c.failAt
  /\ cpuTrace' = c.trace
  /\ cpuBus' = c.bus
  /\ cpuHaltCycles' = c.haltCycles
  /\ cpuBudget' = number
  /\ cpuLog' = c.log
  /\ cpuEvents' = c.ev
  /\ cpuRaised' = c.raised
  /\ cpuBreak' = c.break
  /\ haltOutstanding' = c.haltOutstanding
  /\ haltRequests' = c.haltRequests
  /\ haltHandled' = c.haltHandled
  /\ UNCHANGED <<aqVars, cartVars, rngVars, tiaVars, stackVars>>

\* No exception is on its way out of the instruction.
Running(c) == ~c.thrown /\ ~c.warning

\* mySystem->incrementCycles(n), and the callback of a halt advancing the
\* clock: myLastBreakCycle is the value of the clock no longer.
IncrementCycles(c, n) ==
  [c EXCEPT !.cycles = @ + n,
            !.atLastBreakCycle = @ /\ n = 0]

\* An entry of the history of the call: what happened, the address and the
\* value it was about, the clock behind it, the instruction of the call it
\* belongs to (0: none) and the calls of irq(), nmi() and raises of
\* EmulationWarning by the device accessed.
Log(c, kind, address, value, raised) ==
  [c EXCEPT !.log = Append(@, [kind |-> kind, address |-> address,
                               value |-> value, cycles |-> c.cycles,
                               ins |-> c.ins, raised |-> raised])]

\* M6502::requestHalt
RequestHaltState(c) ==
  IF ~myOnHaltCallback
  THEN [c EXCEPT !.thrown = TRUE]
  ELSE [c EXCEPT !.myHaltRequested = TRUE,
                 !.haltRequests = @ + 1,
                 !.haltOutstanding = IF c.myHaltRequested THEN @ ELSE @ + 1]

\* M6502::handleHalt without the assignment that ends the request.
HandleHaltKeepsRequest(c, h) ==
  IF c.myHaltRequested
  THEN IF myOnHaltCallback
       THEN Log([IncrementCycles(c, h)
                   EXCEPT !.haltCycles = @ + h,
                          !.haltOutstanding = @ - 1,
                          !.haltHandled = c.haltRequests, !.haltRequests = 0],
                "halt", 0, h, {})
       ELSE [c EXCEPT !.thrown = TRUE]
  ELSE c

\* M6502::handleHalt: the callback advances the clock of the System by h
\* cycles; calling a callback that is not set throws.
HandleHalt(c, h) ==
  IF c.myHaltRequested
  THEN IF myOnHaltCallback
       THEN Log([IncrementCycles(c, h)
                   EXCEPT !.haltCycles = @ + h,
                          !.myHaltRequested = FALSE,
                          !.haltOutstanding = @ - 1,
                          !.haltHandled = c.haltRequests, !.haltRequests = 0],
                "halt", 0, h, {})
       ELSE [c EXCEPT !.thrown = TRUE]
  ELSE c

\* The access of the bus with the clock advanced after it.
BusAccessBeforeClock(c, kind, address, value) ==
  LET n == c.bus + 1
      raised == (IF c.ev.irq = n THEN {"irq"} ELSE {})
                  \cup (IF c.ev.nmi = n THEN {"nmi"} ELSE {})
                  \cup (IF c.ev.warn = n THEN {"warn"} ELSE {})
      a == IncrementCycles(Log([c EXCEPT !.bus = n], kind, address, value, raised),
                           SYSTEM_CYCLES_PER_CPU)
  IN [a EXCEPT !.warning = "warn" \in raised,
               !.myExecutionStatus =
                  @ \cup (IF "irq" \in raised THEN {MaskableInterruptBit} ELSE {})
                    \cup (IF "nmi" \in raised THEN {NonmaskableInterruptBit} ELSE {})]

\* The access of the bus by M6502::peek and M6502::poke: the clock advances,
\* then the System is called; the device called may call irq() or nmi(), or
\* raise an EmulationWarning instead of completing the access.
BusAccess(c, kind, address, value) ==
  LET n == c.bus + 1
      raised == (IF c.ev.irq = n THEN {"irq"} ELSE {})
                  \cup (IF c.ev.nmi = n THEN {"nmi"} ELSE {})
                  \cup (IF c.ev.warn = n THEN {"warn"} ELSE {})
      a == Log([IncrementCycles(c, SYSTEM_CYCLES_PER_CPU) EXCEPT !.bus = n],
               kind, address, value, raised)
  IN [a EXCEPT !.warning = "warn" \in raised,
               !.myExecutionStatus =
                  @ \cup (IF "irq" \in raised THEN {MaskableInterruptBit} ELSE {})
                    \cup (IF "nmi" \in raised THEN {NonmaskableInterruptBit} ELSE {})]

\* M6502::peek: the state after the read (kind "fetch" for the read of an
\* opcode).  With DEBUGGER_SUPPORT a read of a trapped address sets the
\* trap flag (ghost reads trap as well).
CpuPeek(c, h, address, kind) ==
  LET ReadTrap(a) ==
        IF Running(a) /\ debuggerSupport /\ address \in a.myReadTraps
        THEN [a EXCEPT !.myJustHitReadTrapFlag = TRUE,
                       !.myHitTrapInfo = [message |-> "RTrap", address |-> address]]
        ELSE a
      ReadBus(d) == ReadTrap(IF d.thrown THEN d ELSE BusAccess(d, kind, address, 0))
  IN IF ~Running(c) THEN c ELSE ReadBus(HandleHalt(c, h))

\* System::poke of a device register.  Addresses with bits 12 and 7 clear
\* are the TIA's, which decodes the low six bits.
DevicePoke(c, address) ==
  IF HasBit(address, 4096) \/ HasBit(address, 128) THEN c
  ELSE IF Low(address, 63) = WSYNC THEN RequestHaltState(c)
  ELSE IF Low(address, 63) = VSYNC
  THEN [c EXCEPT !.myExecutionStatus = @ \cup {StopExecutionBit}]
  ELSE c

\* M6502::poke
CpuPoke(c, address, value) ==
  LET WriteTrap(p) ==
        IF Running(p) /\ debuggerSupport /\ address \in p.myWriteTraps
        THEN [p EXCEPT !.myJustHitWriteTrapFlag = TRUE,
                       !.myHitTrapInfo = [message |-> "WTrap", address |-> address]]
        ELSE p
      WriteDevice(a) == WriteTrap(IF a.warning THEN a ELSE DevicePoke(a, address))
  IN IF ~Running(c) THEN c ELSE WriteDevice(BusAccess(c, "poke", address, value))

\* PC++ and SP-- in the argument of a call: evaluated before the call.
IncPC(c) == IF Running(c) THEN [c EXCEPT !.PC = (@ + 1) % 65536] ELSE c
DecSP(c) == IF Running(c) THEN [c EXCEPT !.SP = (@ + 255) % 256] ELSE c

\* The instruction IR, fetched; c.PC is behind the opcode.  The accumulator
\* STA stores is 0.
Dispatch(c, IR, h) ==
  LET \* JMP: the high byte of the target is read, then PC is set.
      JmpSet(u) ==
        IF Running(u)
        THEN [u EXCEPT !.PC = BusRead(c.PC) + 256 * BusRead(c.PC + 1)]
        ELSE u
      JmpHigh(l) == JmpSet(CpuPeek(IncPC(l), h, l.PC, "peek"))
      \* JSR: a read of the stack, the push of PCH and of PCL, the read of
      \* the high byte of the target, then PC is set.
      JsrSet(u) ==
        IF Running(u)
        THEN [u EXCEPT !.PC = BusRead(c.PC) + 256 * BusRead(u.PC)]
        ELSE u
      JsrHigh(q) == JsrSet(CpuPeek(q, h, q.PC, "peek"))
      JsrPushLow(p) == JsrHigh(CpuPoke(DecSP(p), 256 + p.SP, Low(p.PC, 255)))
      JsrPushHigh(d) == JsrPushLow(CpuPoke(DecSP(d), 256 + d.SP, Shr(d.PC, 8)))
      JsrStack(l) == JsrPushHigh(CpuPeek(l, h, 256 + l.SP, "peek"))
  IN IF IR = NOP THEN CpuPeek(c, h, c.PC, "peek")
     ELSE IF IR = STA_ZP
     THEN CpuPoke(CpuPeek(IncPC(c), h, c.PC, "peek"), BusRead(c.PC), 0)
     ELSE IF IR = JMP_ABS THEN JmpHigh(CpuPeek(IncPC(c), h, c.PC, "peek"))
     ELSE IF IR = JSR THEN JsrStack(CpuPeek(IncPC(c), h, c.PC, "peek"))
     ELSE SetMessage([c EXCEPT !.myExecutionStatus = @ \cup {FatalErrorBit}],
                     "invalid instruction")

\* M6502::_execute with DEBUGGER_SUPPORT: the tests before an instruction.
\* A break sets returned.  The bank of every address is 0.
DebuggerBreak(c) ==
  IF ~debuggerSupport \/ c.atLastBreakCycle THEN c
  ELSE IF c.myJustHitReadTrapFlag \/ c.myJustHitWriteTrapFlag
  THEN SetDebugger([c EXCEPT !.myJustHitReadTrapFlag = FALSE,
                             !.myJustHitWriteTrapFlag = FALSE,
                             !.atLastBreakCycle = TRUE,
                             !.returned = TRUE, !.break = "trap"],
                   c.myHitTrapInfo.message, c.myHitTrapInfo.address,
                   c.myJustHitReadTrapFlag)
  ELSE IF c.PC \in DOMAIN c.myBreakPoints
  THEN IF c.myBreakPoints[c.PC] = "ONE_SHOT"
       THEN [c EXCEPT !.myBreakPoints = [a \in DOMAIN @ \ {c.PC} |-> @[a]],
                      !.atLastBreakCycle = TRUE,
                      !.returned = TRUE, !.break = "one-shot"]
       ELSE SetDebugger([c EXCEPT !.atLastBreakCycle = TRUE,
                                  !.returned = TRUE, !.break = "breakpoint"],
                        "BP", -1, TRUE)
  ELSE IF c.ev.cbp = c.ins + 1
  THEN SetDebugger([c EXCEPT !.atLastBreakCycle = TRUE,
                             !.returned = TRUE, !.break = "conditional"],
                   "CBP", -1, TRUE)
  ELSE c

\* M6502::_execute: one turn of the inner loop, with an EmulationWarning
\* handled like a FatalEmulationError.
InstructionWarningIsFatal(c, h) ==
  LET FatalCaught(d) ==
        IF d.thrown THEN d
        ELSE IF d.warning
        THEN SetMessage([d EXCEPT !.myExecutionStatus = @ \cup {FatalErrorBit},
                                  !.warning = FALSE,
                                  !.currentCycles = d.cycles], "warning")
        ELSE [d EXCEPT !.currentCycles = d.cycles]
      FatalSwitch(f, IR) ==
        FatalCaught(IF Running(f)
               THEN Dispatch([f EXCEPT !.trace = Append(@, IR)], IR, h)
               ELSE f)
      FatalFetch(b) == FatalSwitch(CpuPeek(IncPC(b), h, b.PC, "fetch"), BusRead(b.PC))
      FatalBegin(k) ==
        IF k.returned THEN k
        ELSE FatalFetch(Log([k EXCEPT !.ins = @ + 1], "begin", k.PC, k.currentCycles, {}))
  IN FatalBegin(DebuggerBreak(c))

\* M6502::_execute: one turn of the inner loop.
Instruction(c, h) ==
  LET InsCaught(d) ==
        IF d.thrown THEN d
        ELSE IF d.warning
        THEN SetDebugger([d EXCEPT !.returned = TRUE], "warning", d.PC, TRUE)
        ELSE [d EXCEPT !.currentCycles = d.cycles]
      InsSwitch(f, IR) ==
        InsCaught(IF Running(f)
               THEN Dispatch([f EXCEPT !.trace = Append(@, IR)], IR, h)
               ELSE f)
      InsFetch(b) == InsSwitch(CpuPeek(IncPC(b), h, b.PC, "fetch"), BusRead(b.PC))
      InsBegin(k) ==
        IF k.returned THEN k
        ELSE InsFetch(Log([k EXCEPT !.ins = @ + 1], "begin", k.PC, k.currentCycles, {}))
  IN InsBegin(DebuggerBreak(c))

\* mySystem->poke by interruptHandler(): no clock, no trap.
SystemPoke(c, address, value) ==
  IF ~Running(c) THEN c
  ELSE DevicePoke(Log(c, "push", address, value, {}), address)

\* M6502::PS(): the status byte.  Of the flags only B, D and I are kept;
\* N, V, Z and C are taken to be clear.
PS(c) ==
  32 + (IF c.B THEN 16 ELSE 0) + (IF c.D THEN 8 ELSE 0) + (IF c.I THEN 4 ELSE 0)

\* The pushes of interruptHandler() and the load of PC from the vector.
\* The history gets the top of the stack and PS() (entry "status") and PC
\* (entry "interrupt") the handler found.
ServiceInterrupt(c, vector, setI) ==
  LET return == (c.PC + 65535) % 65536
      LoadVector(r) ==
        IF Running(r)
        THEN Log([r EXCEPT !.D = FALSE, !.I = (setI \/ @), !.PC = Vector(vector)],
                 "vector", vector, Vector(vector), {})
        ELSE r
      PushPS(q) ==
        LoadVector(SystemPoke(DecSP(q), 256 + q.SP, PS(c) - (IF c.B THEN 16 ELSE 0)))
      PushPCL(p) == PushPS(SystemPoke(DecSP(p), 256 + p.SP, Low(return, 255)))
      PushPCH(t) == PushPCL(SystemPoke(DecSP(t), 256 + t.SP, Shr(return, 8)))
  IN PushPCH(Log(IncrementCycles(Log(c, "status", 256 + c.SP, PS(c), {}),
                                 7 * SYSTEM_CYCLES_PER_CPU),
                 "interrupt", vector, c.PC, {}))

\* M6502::interruptHandler
IRQVector == 65534
NMIVector == 65530
InterruptHandler(c) ==
  LET ClearBits(s) ==
        IF Running(s)
        THEN [s EXCEPT !.myExecutionStatus =
                         @ \ {MaskableInterruptBit, NonmaskableInterruptBit}]
        ELSE s
  IN ClearBits(IF MaskableInterruptBit \in c.myExecutionStatus /\ ~c.I
               THEN ServiceInterrupt(c, IRQVector, TRUE)
               ELSE IF NonmaskableInterruptBit \in c.myExecutionStatus
               THEN ServiceInterrupt(c, NMIVector, FALSE)
               ELSE Log(c, "masked", 0, 0, {}))

\* M6502::_execute: the inner loop goes on whatever the execution status.
LoopRunsWhateverStatus(c, number) ==
  c.currentCycles < number * SYSTEM_CYCLES_PER_CPU

\* M6502::_execute: the condition of the inner loop.
LoopRuns(c, number) ==
  /\ c.myExecutionStatus = {}
  /\ c.currentCycles < number * SYSTEM_CYCLES_PER_CPU

\* M6502::_execute from the first test of the inner loop.
RECURSIVE ExecuteLoop(_, _, _)
ExecuteLoop(c, number, h) ==
  LET AfterInterrupt(i) ==
        IF i.thrown THEN i
        ELSE IF FatalErrorBit \in i.myExecutionStatus THEN SetFatal(i)
        ELSE IF StopExecutionBit \in i.myExecutionStatus THEN SetOk(i)
        ELSE IF i.currentCycles >= number * SYSTEM_CYCLES_PER_CPU THEN SetOk(i)
        ELSE ExecuteLoop(i, number, h)
  IN IF c.thrown \/ c.returned THEN c
     ELSE IF LoopRuns(c, number) THEN ExecuteLoop(Instruction(c, h), number, h)
     ELSE AfterInterrupt(IF c.myExecutionStatus
                              \cap {MaskableInterruptBit, NonmaskableInterruptBit} # {}
                         THEN InterruptHandler(c)
                         ELSE c)

\* M6502::execute(number, result), with the handleHalt() that follows
\* _execute() in a build with DEBUGGER_SUPPORT.
ExecuteState(c, number, h) ==
  LET AfterExecute(e) == IF debuggerSupport /\ ~e.thrown THEN HandleHalt(e, h) ELSE e
  IN AfterExecute(ExecuteLoop([c EXCEPT !.myExecutionStatus = {}], number, h))

\* The registers reset() sets: SP 0xfd and PS 0x20, or random values when
\* the settings ask for them.
ResetRegisters ==
  {[SP |-> 253, B |-> FALSE, D |-> FALSE, I |-> FALSE],
   [SP |-> 253, B |-> TRUE, D |-> FALSE, I |-> FALSE],
   [SP |-> 5, B |-> TRUE, D |-> TRUE, I |-> FALSE],
   [SP |-> 1, B |-> FALSE, D |-> TRUE, I |-> TRUE]}

\* M6502::reset: a request to halt that is pending is dropped.
ResetState(c, r) ==
  [c EXCEPT !.myExecutionStatus = {},
            !.SP = r.SP, !.B = r.B, !.D = r.D, !.I = r.I,
            !.PC = ResetVector,
            !.myHaltRequested = FALSE,
            !.atLastBreakCycle = FALSE,
            !.raised = 0,
            !.haltOutstanding = IF c.myHaltRequested THEN @ - 1 ELSE @,
            !.haltRequests = 0]

\* The cycles execute() is given, and the cycles the halt callback adds.
MaxCycles == 5
CycleBudgets == {0, 1, MaxCycles}
HaltCycles == {0, 2}
\* requestHalt() is called at most this many times on one pending request.
MaxRequests == 2
\* The calls of execute() between two calls of reset() during which a
\* device raises an interrupt or a warning.
MaxRaised == 1
\* The bus accesses of a call in which a device acts.
MaxAccess == 3
\* No device acts; one calls irq(), one calls nmi() or one raises a warning
\* in access k; irq() and nmi() are both called in access k; nmi() is called
\* in access k and a warning raised in the next one.
DeviceEvents ==
  {NoEvents} \cup
  UNION {{[NoEvents EXCEPT !.irq = k], [NoEvents EXCEPT !.nmi = k],
          [NoEvents EXCEPT !.warn = k],
          [NoEvents EXCEPT !.irq = k, !.nmi = k],
          [NoEvents EXCEPT !.nmi = k, !.warn = k + 1]} : k \in 1 .. MaxAccess}

ExecuteWith(number, h, ev) ==
  LET e == ExecuteState([CpuState EXCEPT !.ev = ev,
                                         !.raised = @ + (IF [ev EXCEPT !.cbp = 0] = NoEvents
                                                        THEN 0 ELSE 1)],
                        number, h)
  IN /\ cpuFatal' = (cpuFatal \/ e.result.status = "fatal")
     /\ UNCHANGED <<myOnHaltCallback, debuggerSupport, cpuStream>>
     /\ CpuStep("execute", e, number)

Execute(number, h) == ExecuteWith(number, h, NoEvents)

\* execute() while devices raise interrupts and warnings.
ExecuteDevices(number, h, ev) ==
  /\ ev # NoEvents => cpuRaised < MaxRaised
  /\ ExecuteWith(number, h, ev)

Reset(r) ==
  /\ cpuFatal' = FALSE
  /\ UNCHANGED <<myOnHaltCallback, debuggerSupport, cpuStream>>
  /\ CpuStep("reset", ResetState(CpuState, r), 0)

\* M6502::requestHalt, called by a device between two calls of execute().
RequestHalt ==
  /\ haltRequests < MaxRequests
  /\ UNCHANGED <<myOnHaltCallback, debuggerSupport, cpuStream, cpuFatal>>
  /\ CpuStep("requestHalt", RequestHaltState(CpuState), 0)

\* M6502::setOnHaltCallback, called by the TIA when it is installed.
SetOnHaltCallback ==
  /\ ~myOnHaltCallback
  /\ myOnHaltCallback' = TRUE
  /\ UNCHANGED <<debuggerSupport, cpuStream, cpuFatal>>
  /\ CpuStep("setOnHaltCallback", CpuState, 0)

NextCPU ==
  \/ \E number \in CycleBudgets, h \in HaltCycles : Execute(number, h)
  \/ \E r \in ResetRegisters : Reset(r)
  \/ RequestHalt
  \/ SetOnHaltCallback

\* The debugger: the breakpoint it sets (one-shot or not), the addresses
\* it traps and the instruction of a call before which its conditional
\* breakpoint holds.
BreakAddrs == {4}
BreakFlags == {"ONE_SHOT", "BREAK"}
ReadTrapAddrs == {5}
WriteTrapAddrs == {WSYNC}
CondBreaks == {[NoEvents EXCEPT !.cbp = k] : k \in 0 .. 2}

\* myBreakPoints.add(addr, bank, flags), by the debugger.
SetBreakpoint(addr, flags) ==
  /\ debuggerSupport
  /\ addr \notin DOMAIN myBreakPoints
  /\ UNCHANGED <<myOnHaltCallback, debuggerSupport, cpuStream, cpuFatal>>
  /\ CpuStep("setBreakpoint",
             [CpuState EXCEPT !.myBreakPoints =
                [a \in DOMAIN @ \cup {addr} |-> IF a = addr THEN flags ELSE @[a]]], 0)

\* myReadTraps.add(addr) and myWriteTraps.add(addr), by the debugger.
SetTrap(addr, read) ==
  /\ debuggerSupport
  /\ addr \notin (IF read THEN myReadTraps ELSE myWriteTraps)
  /\ UNCHANGED <<myOnHaltCallback, debuggerSupport, cpuStream, cpuFatal>>
  /\ CpuStep("setTrap",
             IF read THEN [CpuState EXCEPT !.myReadTraps = @ \cup {addr}]
             ELSE [CpuState EXCEPT !.myWriteTraps = @ \cup {addr}], 0)

\* execute() with the debugger attached.
ExecuteDebugger(number, h, ev) ==
  /\ debuggerSupport
  /\ ExecuteWith(number, h, ev)

NextDebugger ==
  \/ \E number \in CycleBudgets, h \in HaltCycles, ev \in CondBreaks :
       ExecuteDebugger(number, h, ev)
  \/ \E addr \in BreakAddrs, flags \in BreakFlags : SetBreakpoint(addr, flags)
  \/ \E addr \in ReadTrapAddrs : SetTrap(addr, TRUE)
  \/ \E addr \in WriteTrapAddrs : SetTrap(addr, FALSE)

NextDevices ==
  \E number \in CycleBudgets, h \in HaltCycles, ev \in DeviceEvents :
    ExecuteDevices(number, h, ev)

(***************************************************************************)
(* The delay queue of the TIA.  The queue is a ring of delayQueueLength    *)
(* slots; a write with delay d goes to the end of the slot d places after  *)
(* the current one, and every colour clock applies the writes of the       *)
(* current slot in order, empties it and moves to the next slot.           *)
(***************************************************************************)
delayQueueLength == 16
delayQueueSize == 16
shuffleP0 == 240
shuffleP1 == 241
DelayedRegisters == {shuffleP0, shuffleP1}
RegisterValues == {1, 2}
Delays == {0, 1, 2}

\* The writes that may be scheduled and not yet applied.
MaxPending == 2

\* TIA::delayedWrite(address, value): the register takes the value.
DelayedWriteDropped(registers, address, value) == registers

DelayedWrite(registers, address, value) ==
  [registers EXCEPT ![address] = value]

RECURSIVE ExecuteMember(_, _)
\* The writes of one slot applied to the registers, first to last.
ExecuteMember(registers, member) ==
  IF member = << >> THEN registers
  ELSE ExecuteMember(DelayedWrite(registers, Head(member).address, Head(member).value),
                     Tail(member))

\* myDelayQueue.push(address, value, delay).
DelayQueuePush(q, address, value, delay) ==
  LET index == (q.myIndex + delay) % delayQueueLength
  IN [q EXCEPT !.myMembers[index] = Append(@, [address |-> address, value |-> value])]

\* myDelayQueue.execute(delayedWrite): the queue after the current slot ran.
DelayQueueExecute(q) ==
  [q EXCEPT !.myMembers[q.myIndex] = << >>,
            !.myIndex = (@ + 1) % delayQueueLength]

\* A write to a register whose effect the hardware delays by `delay' clocks.
TiaPoke(address, value, delay) ==
  /\ delay < delayQueueLength
  /\ Len(tiaWritten) < MaxPending
  /\ Len(myDelayQueue.myMembers[(myDelayQueue.myIndex + delay) % delayQueueLength])
       < delayQueueSize
  /\ myDelayQueue' = DelayQueuePush(myDelayQueue, address, value, delay)
  /\ tiaWritten' = Append(tiaWritten, [address |-> address, value |-> value, left |-> delay])
  /\ tiaApplied' = << >>
  /\ tiaFired' = << >>
  /\ UNCHANGED <<tiaRegisters, tiaDue>>
  /\ UNCHANGED <<aqVars, cartVars, rngVars, cpuVars, stackVars>>

RECURSIVE LastDue(_, _)
\* Each register's value after the writes of `fired', in the order written.
LastDue(due, fired) ==
  IF fired = << >> THEN due
  ELSE LastDue([due EXCEPT ![Head(fired).address] = Head(fired).value], Tail(fired))

\* One colour clock of TIA::cycle.
TiaCycle ==
  LET member == myDelayQueue.myMembers[myDelayQueue.myIndex]
      fired == SelectSeq(tiaWritten, LAMBDA w : w.left = 0)
      waiting == SelectSeq(tiaWritten, LAMBDA w : w.left > 0)
  IN /\ tiaRegisters' = ExecuteMember(tiaRegisters, member)
     /\ tiaApplied' = member
     /\ myDelayQueue' = DelayQueueExecute(myDelayQueue)
     /\ tiaFired' = [i \in 1 .. Len(fired) |->
                       [address |-> fired[i].address, value |-> fired[i].value]]
     /\ tiaWritten' = [i \in 1 .. Len(waiting) |-> [waiting[i] EXCEPT !.left = @ - 1]]
     /\ tiaDue' = LastDue(tiaDue, fired)
     /\ UNCHANGED <<aqVars, cartVars, rngVars, cpuVars, stackVars>>

NextTIA ==
  \/ \E address \in DelayedRegisters, value \in RegisterValues, delay \in Delays :
       TiaPoke(address, value, delay)
  \/ TiaCycle

\* The processor as constructed: the fields the constructor sets to the
\* values reset() gives them too, and the history.
InitCPUHistory ==
  /\ PC = ResetVector
  /\ myExecutionStatus = {}
  /\ myHaltRequested = FALSE
  /\ myBreakPoints = << >>
  /\ myReadTraps = {}
  /\ myWriteTraps = {}
  /\ myJustHitReadTrapFlag = FALSE
  /\ myJustHitWriteTrapFlag = FALSE
  /\ myHitTrapInfo = [message |-> "", address |-> 0]
  /\ atLastBreakCycle = FALSE
  /\ cpuStream = NoStream
  /\ cpuOp = "construct"
  /\ cpuResult = NoResult
  /\ cpuResumes = FALSE
  /\ cpuRet = FALSE
  /\ cpuThrown = FALSE
  /\ cpuFailAt = 0
  /\ cpuTrace = << >>
  /\ cpuBus = 0
  /\ cpuHaltCycles = 0
  /\ cpuBudget = 0
  /\ cpuFatal = FALSE
  /\ cpuLog = << >>
  /\ cpuEvents = NoEvents
  /\ cpuRaised = 0
  /\ cpuBreak = "none"
  /\ haltOutstanding = 0
  /\ haltRequests = 0
  /\ haltHandled = 0

\* The processor as constructed.
InitCPUFields ==
  /\ SP = 0
  /\ B = FALSE
  /\ D = FALSE
  /\ I = FALSE
  /\ myOnHaltCallback = FALSE
  /\ InitCPUHistory

\* The processor as constructed, in a build without DEBUGGER_SUPPORT.
InitCPU ==
  /\ InitCPUFields
  /\ debuggerSupport = FALSE

\* The cartridge as constructed, before install().
InitCartFields ==
  /\ installed = FALSE
  /\ myBankLocked = FALSE
  /\ myBankChanged = TRUE
  /\ bankInUse = [b \in 0 .. 7 |-> BANK_UNDEFINED]
  /\ myCurrentSlice = [i \in 0 .. 1 |-> 0]
  /\ myCurrentRAM = 0
  /\ myBankOffset = 0
  /\ myRAM = << >>
  /\ myParameterPointer = 0
  /\ myCounters = [i \in 0 .. 7 |-> 0]
  /\ myFractionalCounters = [i \in 0 .. 7 |-> 0]
  /\ myFractionalIncrements = [i \in 0 .. 7 |-> 0]
  /\ fetchLog = << >>
  /\ fetchSteps = 0
  /\ myStream = NoStream
  /\ pageAccess = [p \in Pages |-> NoAccess]
  /\ cartOp = "construct"
  /\ cartRet = FALSE
  /\ cartThrown = FALSE
  /\ cartFailAt = 0
  /\ tiaPoke = << >>

\* CartridgeDPCPlus::setInitialState: the random number generator.
InitTIA ==
  /\ myDelayQueue = [myIndex |-> 0, myMembers |-> [i \in 0 .. delayQueueLength - 1 |-> << >>]]
  /\ tiaRegisters = [a \in DelayedRegisters |-> 0]
  /\ tiaApplied = << >>
  /\ tiaWritten = << >>
  /\ tiaFired = << >>
  /\ tiaDue = [a \in DelayedRegisters |-> 0]

InitRandom ==
  /\ myRandomNumber = LFSRInitial
  /\ rngSeed = myRandomNumber
  /\ rngForward = 0
  /\ rngBackward = 0

InitCart ==
  /\ scheme \in {"3E+", "E7", "DPC+"}
  /\ myParameter = [i \in 0 .. 7 |-> 0]
  /\ InitCartFields

NextCart ==
  \/ Install3E
  \/ Reset3E
  \/ \E addr \in PeekAddrs3E, rnd \in RandomBytes : Peek3E(addr, rnd)
  \/ \E addr \in Addrs3E, value \in HotspotValues3E \cup DataValues,
        tiaChanged \in BOOLEAN : Poke3E(addr, value, tiaChanged)
  \/ \E value \in HotspotValues3E : CallBankROM(value)
  \/ \E value \in RAMHotspotValues3E : CallBankRAM(value)
  \/ InstallMN
  \/ \E ramBank \in RAMBanksMN, startBank \in SlicesMN : ResetMN(ramBank, startBank)
  \/ \E addr \in AddrsMN, rnd \in RandomBytes : PeekMN(addr, rnd)
  \/ \E addr \in AddrsMN, value \in DataValues : PokeMN(addr, value)
  \/ \E slice \in SlicesMN \cup {BankCountMN} : CallBankMN(slice)
  \/ \E bank \in RAMBanksMN : CallBankRAMMN(bank)
  \/ InstallDPC
  \/ \E startBank \in 0 .. (BankCountDPC - 1) : ResetDPC(startBank)
  \/ \E addr \in AddrsDPC : PeekDPC(addr)
  \/ \E addr \in AddrsDPC : PokeDPC(addr)
  \/ \E bank \in 0 .. (BankCountDPC - 1) : CallBankDPC(bank)
  \/ LockBank
  \/ UnlockBank

(***************************************************************************)
(*                      Saving and loading the state                       *)
(***************************************************************************)

\* try { ... } without a handler: the exception leaves the call.
CatchNothing(s) == [s EXCEPT !.thrown = TRUE]

\* catch(...) { return false; } of save() and load(), entered in state s.
CatchAll(s) == [s EXCEPT !.ret = FALSE]

\* save(): the Serializer call failAt throws, or none if failAt is 0.
SaveOutcome(s, failAt) ==
  IF failAt # 0 THEN CatchAll(s) ELSE [s EXCEPT !.ret = TRUE]

\* The Serializer calls that may throw in save() and load() of a class, 0
\* for none.
FailPoints(kind) ==
  0 .. (IF kind = "3E+" THEN 2 ELSE IF kind = "M6502" THEN 4 ELSE 3)

\* The step of a save(): failAt is the number of the Serializer call that
\* throws (0: none does).  The catch block returns false; a stream that was
\* not written to its end is not kept.  The field "saved" is history: what
\* the stream does not hold of the state at the time of the save.
SaveStep(stream, failAt) ==
  /\ installed
  /\ cartOp' = "save"
  /\ cartRet' = SaveOutcome(CartState, failAt).ret
  /\ cartThrown' = SaveOutcome(CartState, failAt).thrown
  /\ cartFailAt' = failAt
  /\ tiaPoke' = << >>
  /\ fetchLog' = << >>
  /\ myStream' = IF failAt = 0 THEN stream ELSE myStream
  /\ UNCHANGED <<scheme, installed, myBankLocked, myBankChanged, bankInUse,
                 myCurrentSlice, myCurrentRAM, myBankOffset, myRAM, myParameter,
                 myParameterPointer, myCounters, myFractionalCounters,
                 myFractionalIncrements, fetchSteps, pageAccess, aqVars, rngVars,
                 cpuVars, tiaVars, stackVars>>

\* Cartridge3EPlus::save
Save3E(failAt) ==
  /\ scheme = "3E+"
  /\ SaveStep([kind |-> "3E+", bankInUse |-> bankInUse, myRAM |-> myRAM,
               saved |-> [pageAccess |-> pageAccess]], failAt)

\* Cartridge3EPlus::load from the stream in; a Serializer call that throws
\* has stored nothing.
Load3EState(s, in, failAt) ==
  LET s1 == IF failAt = 1 THEN s ELSE [s EXCEPT !.bankInUse = in.bankInUse]
      s2 == IF failAt \in {1, 2} THEN s1 ELSE [s1 EXCEPT !.myRAM = in.myRAM]
  IN IF failAt # 0
     THEN CatchAll(s2)
     ELSE [InitializeBankState(s2) EXCEPT !.ret = TRUE]

Load3E(failAt) ==
  /\ scheme = "3E+"
  /\ installed
  /\ myStream.kind = "3E+"
  /\ UNCHANGED installed
  /\ CartStep("load", [Load3EState(CartState, myStream, failAt) EXCEPT !.failAt = failAt])

\* CartridgeMNetwork::save
SaveMN(failAt) ==
  /\ scheme = "E7"
  /\ SaveStep([kind |-> "E7", myCurrentSlice |-> myCurrentSlice,
               myCurrentRAM |-> myCurrentRAM, myRAM |-> myRAM,
               saved |-> [pageAccess |-> pageAccess]], failAt)

\* CartridgeMNetwork::load
LoadMNState(s, in, failAt) ==
  LET s1 == IF failAt = 1 THEN s ELSE [s EXCEPT !.myCurrentSlice = in.myCurrentSlice]
      s2 == IF failAt \in {1, 2} THEN s1 ELSE [s1 EXCEPT !.myCurrentRAM = in.myCurrentRAM]
      s3 == IF failAt \in {1, 2, 3} THEN s2 ELSE [s2 EXCEPT !.myRAM = in.myRAM]
  IN IF failAt # 0
     THEN CatchAll(s3)
     ELSE [BankMN(BankRAMMN(s3, s3.myCurrentRAM), s3.myCurrentSlice[0])
             EXCEPT !.ret = TRUE]

LoadMN(failAt) ==
  /\ scheme = "E7"
  /\ installed
  /\ myStream.kind = "E7"
  /\ UNCHANGED installed
  /\ CartStep("load", [LoadMNState(CartState, myStream, failAt) EXCEPT !.failAt = failAt])

\* CartridgeDPCPlus::save: of its Serializer calls, 1 stands for
\* putShort(myBankOffset), 2 for putByteArray(myParameter, 8) and 3 for the
\* calls that write the state not modelled here.
SaveDPC(failAt) ==
  /\ scheme = "DPC+"
  /\ SaveStep([kind |-> "DPC+", myBankOffset |-> myBankOffset,
               myCounters |-> myCounters,
               myFractionalCounters |-> myFractionalCounters,
               myFractionalIncrements |-> myFractionalIncrements,
               myParameter |-> myParameter,
               saved |-> [myParameterPointer |-> myParameterPointer]], failAt)

\* CartridgeDPCPlus::load
LoadDPCState(s, in, failAt) ==
  LET s1 == IF failAt = 1 THEN s
            ELSE [s EXCEPT !.myBankOffset = in.myBankOffset,
                           !.myCounters = in.myCounters,
                           !.myFractionalCounters = in.myFractionalCounters,
                           !.myFractionalIncrements = in.myFractionalIncrements]
      s2 == IF failAt \in {1, 2} THEN s1 ELSE [s1 EXCEPT !.myParameter = in.myParameter]
  IN IF failAt # 0
     THEN CatchAll(s2)
     ELSE [BankDPC(s2, Shr(s2.myBankOffset, 12)) EXCEPT !.ret = TRUE]

LoadDPC(failAt) ==
  /\ scheme = "DPC+"
  /\ installed
  /\ myStream.kind = "DPC+"
  /\ UNCHANGED installed
  /\ CartStep("load", [LoadDPCState(CartState, myStream, failAt) EXCEPT !.failAt = failAt])

\* One element of an array indexed by a call.
Indexed(array, index) == [array |-> array, index |-> index]

\* CartridgeDPCPlus::callFunction: functions 0, 1 and 2 reset the parameter
\* pointer, 1 and 2 after copying myParameter[3] bytes into the display RAM
\* from the counter they select (the content of the display RAM is not part
\* of this state); the ARM calls 254 and 255 and the reserved values leave it.
CallFunction(s, value) ==
  IF value = 1
  THEN [s EXCEPT !.myParameterPointer = 0,
                 !.fetchLog = <<Indexed("callFunction", value)>>
                    \o (IF s.myParameter[3] > 0
                        THEN <<Indexed("myCounters", Low(s.myParameter[2], 7))>>
                        ELSE << >>)]
  ELSE IF value = 2
  THEN [s EXCEPT !.myParameterPointer = 0,
                 !.fetchLog = <<Indexed("callFunction", value)>>
                    \o (IF s.myParameter[3] > 0
                        THEN <<Indexed("myCounters", s.myParameter[2])>>
                        ELSE << >>)]
  ELSE IF value = 0 THEN [s EXCEPT !.myParameterPointer = 0]
  ELSE s

\* Bits from .. from + n - 1 of x.
Bits(x, from, n) == (x \div (2 ^ from)) % (2 ^ n)

\* CartridgeDPCPlus::poke of a register 0x28-0x7F: the data fetcher
\* pointers (myFractionalLowMask is 0x0F00FF), PARAMETER, which stores the
\* value at the parameter pointer and advances it, and CALLFUNCTION; the
\* window, music and random number registers are not part of this state.
PokeRegisterDPC(s, address, value) ==
  LET index == Low(address, 7)
      function == Low(Shr(address - 40, 3), 15)
      counter == s.myCounters[index]
      fraction == s.myFractionalCounters[index]
  IN IF function = 0
     THEN [s EXCEPT !.myFractionalCounters[index] =
                      Bits(fraction, 16, 4) * 65536 + value * 256 + Bits(fraction, 0, 8)]
     ELSE IF function = 1
     THEN [s EXCEPT !.myFractionalCounters[index] =
                      Bits(value, 0, 4) * 65536 + Bits(fraction, 0, 16)]
     ELSE IF function = 2
     THEN [s EXCEPT !.myFractionalIncrements[index] = value,
                    !.myFractionalCounters[index] = Bits(fraction, 8, 12) * 256]
     ELSE IF function = 5
     THEN [s EXCEPT !.myCounters[index] = Bits(counter, 8, 4) * 256 + value]
     ELSE IF function = 6 /\ index = 1
     THEN IF s.myParameterPointer < 8
          THEN [s EXCEPT !.myParameter[s.myParameterPointer] = value,
                         !.myParameterPointer = s.myParameterPointer + 1,
                         !.fetchLog = <<Indexed("myParameter", s.myParameterPointer)>>]
          ELSE s
     ELSE IF function = 6 /\ index = 2 THEN CallFunction(s, value)
     ELSE IF function = 7
     THEN [s EXCEPT !.myCounters[index] = (counter + 4095) % 4096,
                    !.fetchLog = <<Indexed("myDisplayImage", (counter + 4095) % 4096)>>,
                    !.fetchSteps = @ + 1]
     ELSE IF function = 8
     THEN [s EXCEPT !.myCounters[index] = Bits(value, 0, 4) * 256 + Bits(counter, 0, 8)]
     ELSE IF function = 10
     THEN [s EXCEPT !.myCounters[index] = (counter + 1) % 4096,
                    !.fetchLog = <<Indexed("myDisplayImage", counter)>>,
                    !.fetchSteps = @ + 1]
     ELSE s

\* CartridgeDPCPlus::peek of a register 0x00-0x27 on the unlocked cartridge,
\* fast fetch off: DFxDATA, DFxDATAW and DFxFRACDATA read the display RAM
\* and move the pointer; the other registers change nothing modelled here.
PeekRegisterDPC(s, address) ==
  LET index == Low(address, 7)
      function == Low(Shr(address, 3), 7)
      counter == s.myCounters[index]
      fraction == s.myFractionalCounters[index]
  IN IF function \in {1, 2}
     THEN [s EXCEPT !.myCounters[index] = (counter + 1) % 4096,
                    !.fetchLog = <<Indexed("myDisplayImage", counter)>>,
                    !.fetchSteps = @ + 1]
     ELSE IF function = 3
     THEN [s EXCEPT !.myFractionalCounters[index] =
                      (fraction + s.myFractionalIncrements[index]) % 1048576,
                    !.fetchLog = <<Indexed("myDisplayImage", Shr(fraction, 8))>>,
                    !.fetchSteps = @ + 1]
     ELSE s

\* CartridgeDPCPlus::peek
PeekValueDPCState(s, addr) ==
  LET address == Low(addr, 4095)
  IN IF s.myBankLocked THEN s
     ELSE IF address < 40 THEN PeekRegisterDPC(s, address)
     ELSE HotspotBankDPC(s, address)

\* CartridgeDPCPlus::poke
PokeValueDPCState(s, addr, value) ==
  LET address == Low(addr, 4095)
  IN IF address >= 40 /\ address < 128
     THEN [PokeRegisterDPC(s, address, value) EXCEPT !.ret = FALSE]
     ELSE PokeDPCState(s, addr)

\* The DPC+ registers PARAMETER and CALLFUNCTION.
PARAMETER == 4185
CALLFUNCTION == 4186
\* At most this many parameters are written before CALLFUNCTION between
\* saves and loads.
MaxParameters == 1
\* The data fetcher whose registers are accessed, the value written to them
\* and to PARAMETER, and the registers: DFxFRACLOW, DFxFRACHI, DFxFRACINC,
\* DFxLOW and DFxHI set a pointer; DFxPUSH and DFxWRITE, and the reads of
\* DFxDATA, DFxDATAW and DFxFRACDATA, move one.
FetcherIndices == {0}
FetcherValues == {255}
ParameterValues == {90}
SetPokesDPC == {4136 + i : i \in FetcherIndices} \cup {4144 + i : i \in FetcherIndices}
                 \cup {4152 + i : i \in FetcherIndices} \cup {4176 + i : i \in FetcherIndices}
                 \cup {4200 + i : i \in FetcherIndices}
StepPokesDPC == {4192 + i : i \in FetcherIndices} \cup {4216 + i : i \in FetcherIndices}
StepPeeksDPC == {4104 + i : i \in FetcherIndices} \cup {4112 + i : i \in FetcherIndices}
                  \cup {4120 + i : i \in FetcherIndices}
\* At most this many accesses move a data fetcher pointer.
MaxSteps == 1

\* The call indexed myCounters outside its eight elements.
OutsideCounters(s) ==
  \E i \in 1 .. Len(s.fetchLog) :
    s.fetchLog[i].array = "myCounters" /\ s.fetchLog[i].index >= 8

\* What such a call can leave: the element read lies in the members behind
\* myCounters, and the copy of myParameter[0] to the display RAM at that
\* offset lands in the display RAM or in a member behind it, such as a
\* counter, whose two bytes then hold myParameter[0].
UndefinedOutcomes(s) ==
  {s} \cup {[s EXCEPT !.myCounters[i] = s.myParameter[0] * 257] : i \in FetcherIndices}

\* System::poke(addr, value) of a DPC+ register.
PokeRegDPC(addr, value) ==
  /\ scheme = "DPC+"
  /\ installed
  /\ UNCHANGED installed
  /\ IF OutsideCounters(PokeValueDPCState(CartState, addr, value))
     THEN \E t \in UndefinedOutcomes(PokeValueDPCState(CartState, addr, value)) :
            CartStep("poke", t)
     ELSE CartStep("poke", PokeValueDPCState(CartState, addr, value))

\* System::peek(addr) of a DPC+ register.
PeekRegDPC(addr) ==
  /\ scheme = "DPC+"
  /\ installed
  /\ UNCHANGED installed
  /\ CartStep("peek", [PeekValueDPCState(CartState, addr) EXCEPT !.ret = cartRet])

\* The bank switches and RAM writes made between saves and loads.
PersistValues3E == {HotspotValue(0, b) : b \in 0 .. 1}
PersistPoke3E(addr, value) ==
  /\ \/ addr = BANK_SWITCH_HOTSPOT_ROM /\ value \in PersistValues3E
     \/ addr = BANK_SWITCH_HOTSPOT_RAM /\ value = HotspotValue(1, 0)
     \/ addr = 5632 /\ value \in DataValues
  /\ Poke3E(addr, value, FALSE)
PersistAddrsMN == {8160 + slice : slice \in SlicesMN} \cup {8168 + bank : bank \in RAMBanksMN}
PersistAddrsDPC == {8182, 8187}

\* M6502::save: of its Serializer calls, 1 stands for those up to
\* putShort(PC), 2 for those up to putByte(myExecutionStatus), 3 for those
\* up to putBool(myHaltRequested) and 4 for putLong(myLastBreakCycle).
M6502Save(failAt) ==
  /\ cpuStream' = IF failAt = 0
                  THEN [kind |-> "M6502", SP |-> SP, PC |-> PC,
                        B |-> B, D |-> D, I |-> I,
                        myExecutionStatus |-> myExecutionStatus,
                        myHaltRequested |-> myHaltRequested]
                  ELSE cpuStream
  /\ UNCHANGED <<myOnHaltCallback, debuggerSupport, cpuFatal>>
  /\ CpuStep("save", [SaveOutcome(CpuState, failAt) EXCEPT !.failAt = failAt], 0)

\* M6502::load
M6502LoadState(c, in, failAt) ==
  LET c1 == IF failAt = 1 THEN c ELSE [c EXCEPT !.SP = in.SP, !.PC = in.PC]
      c2 == IF failAt \in {1, 2} THEN c1
            ELSE [c1 EXCEPT !.B = in.B, !.D = in.D, !.I = in.I,
                            !.myExecutionStatus = in.myExecutionStatus]
      c3 == IF failAt \in {1, 2, 3} THEN c2
            ELSE [c2 EXCEPT !.myHaltRequested = in.myHaltRequested]
  IN IF failAt # 0 THEN CatchAll(c3) ELSE [c3 EXCEPT !.ret = TRUE]

M6502Load(failAt) ==
  /\ cpuStream.kind = "M6502"
  /\ UNCHANGED <<myOnHaltCallback, debuggerSupport, cpuStream, cpuFatal>>
  /\ CpuStep("load", [M6502LoadState(CpuState, cpuStream, failAt)
                        EXCEPT !.failAt = failAt], 0)

NextPersist ==
  \/ Install3E
  \/ \E addr \in {BANK_SWITCH_HOTSPOT_RAM, BANK_SWITCH_HOTSPOT_ROM, 5632},
        value \in PersistValues3E \cup {HotspotValue(1, 0)} \cup DataValues :
          PersistPoke3E(addr, value)
  \/ \E failAt \in FailPoints("3E+") : Save3E(failAt)
  \/ \E failAt \in FailPoints("3E+") : Load3E(failAt)
  \/ InstallMN
  \/ \E addr \in PersistAddrsMN, value \in DataValues : PokeMN(addr, value)
  \/ \E failAt \in FailPoints("E7") : SaveMN(failAt)
  \/ \E failAt \in FailPoints("E7") : LoadMN(failAt)
  \/ InstallDPC
  \/ \E addr \in PersistAddrsDPC : PokeDPC(addr)
  \/ \E addr \in {PARAMETER, CALLFUNCTION} :
       /\ addr = PARAMETER => myParameterPointer < MaxParameters
       /\ PokeRegDPC(addr, IF addr = PARAMETER THEN 7 ELSE 0)
  \/ \E failAt \in FailPoints("DPC+") : SaveDPC(failAt)
  \/ \E failAt \in FailPoints("DPC+") : LoadDPC(failAt)
  \/ LockBank
  \/ UnlockBank
  \/ scheme = "none" /\ SetOnHaltCallback
  \/ scheme = "none" /\ RequestHalt
  \/ scheme = "none" /\ \E failAt \in FailPoints("M6502") : M6502Save(failAt)
  \/ scheme = "none" /\ \E failAt \in FailPoints("M6502") : M6502Load(failAt)

(***************************************************************************)
(*                   FixedStack (src/common/Stack.hxx)                     *)
(***************************************************************************)

\* The template parameter CAPACITY (50 by default), and the elements pushed.
CAPACITY == 3
StackElements == {1, 2}

\* uInt32 as two 16-bit halves: arithmetic modulo 2^32.
Half == 2 ^ 16
U32(n) == [hi |-> n \div Half, lo |-> n % Half]
Inc32(x) ==
  IF x.lo < Half - 1 THEN [x EXCEPT !.lo = @ + 1]
  ELSE [hi |-> (x.hi + 1) % Half, lo |-> 0]
Dec32(x) ==
  IF x.lo > 0 THEN [x EXCEPT !.lo = @ - 1]
  ELSE [hi |-> (x.hi + Half - 1) % Half, lo |-> Half - 1]
Less32(x, y) == x.hi < y.hi \/ (x.hi = y.hi /\ x.lo < y.lo)
\* The index lies inside array<T, CAPACITY>.
InArray(x) == x.hi = 0 /\ x.lo < CAPACITY

StackState == [stack |-> fsStack, size |-> fsSize]

\* std::swap(_stack[i], _stack[j])
Swap(stack, i, j) == [stack EXCEPT ![i] = stack[j], ![j] = stack[i]]

\* The loop of FixedStack::reverse from the indices i and j on; it stops at
\* the first access outside the array, whose effect is undefined.
RECURSIVE ReverseLoop(_, _, _)
ReverseLoop(r, i, j) ==
  IF ~Less32(i, j) THEN r
  ELSE IF ~InArray(i) \/ ~InArray(j) THEN [r EXCEPT !.outOfBounds = TRUE]
  ELSE ReverseLoop([r EXCEPT !.stack = Swap(r.stack, i.lo, j.lo),
                             !.accessed = @ \cup {i.lo, j.lo}],
                   Inc32(i), Dec32(j))

\* FixedStack::reverse: i = 0, j = _size - 1 in uInt32.
FixedStackReverse(st) ==
  ReverseLoop([stack |-> st.stack, size |-> st.size, accessed |-> {},
               outOfBounds |-> FALSE],
              U32(0), Dec32(U32(st.size)))

\* One call on the stack.
StackStep(op, stack, size) ==
  /\ ~fsCrashed
  /\ fsOp' = op
  /\ fsStack' = stack
  /\ fsSize' = size
  /\ UNCHANGED <<aqVars, cartVars, rngVars, cpuVars, tiaVars>>

\* FixedStack::push, called when the stack is not full.
StackPush(x) ==
  /\ fsSize < CAPACITY
  /\ StackStep("push", [fsStack EXCEPT ![fsSize] = x], fsSize + 1)
  /\ UNCHANGED <<fsBefore, fsAccessed, fsOutOfBounds, fsCrashed>>

\* FixedStack::pop, called when the stack is not empty.
StackPop ==
  /\ fsSize > 0
  /\ StackStep("pop", fsStack, fsSize - 1)
  /\ UNCHANGED <<fsBefore, fsAccessed, fsOutOfBounds, fsCrashed>>

\* FixedStack::reverse.  An access outside the array is undefined: the
\* program ends, or goes on with any content and size.
StackReverse ==
  LET r == FixedStackReverse(StackState)
  IN /\ fsBefore' = StackState
     /\ fsAccessed' = r.accessed
     /\ fsOutOfBounds' = r.outOfBounds
     /\ IF r.outOfBounds
        THEN \E stack \in [0 .. (CAPACITY - 1) -> {0} \cup StackElements],
                size \in 0 .. CAPACITY, crashed \in BOOLEAN :
               /\ fsCrashed' = crashed
               /\ StackStep("reverse", stack, size)
        ELSE /\ UNCHANGED fsCrashed
             /\ StackStep("reverse", r.stack, r.size)

NextStack ==
  \/ \E x \in StackElements : StackPush(x)
  \/ StackPop
  \/ StackReverse

\* FixedStack(): _size(0); the array of a freshly constructed stack.
InitStack ==
  /\ fsStack = [i \in 0 .. (CAPACITY - 1) |-> 0]
  /\ fsSize = 0
  /\ fsOp = "construct"
  /\ fsBefore = [stack |-> [i \in 0 .. (CAPACITY - 1) |-> 0], size |-> 0]
  /\ fsAccessed = {}
  /\ fsOutOfBounds = FALSE
  /\ fsCrashed = FALSE


(***************************************************************************)
(*                            Specifications                               *)
(***************************************************************************)

NextAQ ==
  \/ \E t \in Threads, op \in {"enqueue", "dequeue", "size"},
        arg \in AllFragments \cup {NullFragment} : AQCall(t, op, arg) /\ UNCHANGED <<cartVars, rngVars, cpuVars, tiaVars, stackVars>>
  \/ \E t \in Threads : AQLock(t) /\ UNCHANGED <<cartVars, rngVars, cpuVars, tiaVars, stackVars>>
  \/ \E t \in Threads : Enqueue(t) /\ UNCHANGED <<cartVars, rngVars, cpuVars, tiaVars, stackVars>>
  \/ \E t \in Threads : Dequeue(t) /\ UNCHANGED <<cartVars, rngVars, cpuVars, tiaVars, stackVars>>
  \/ \E t \in Threads : Size(t) /\ UNCHANGED <<cartVars, rngVars, cpuVars, tiaVars, stackVars>>

\* The audio queue alone: no cartridge is attached.
InitAudio ==
  /\ InitTIA
  /\ InitStack
  /\ InitAQ
  /\ scheme = "none"
  /\ myParameter = [i \in 0 .. 7 |-> 0]
  /\ InitCartFields
  /\ InitRandom
  /\ InitCPU
SpecAQ == InitAudio /\ [][NextAQ]_vars

\* A thread that holds the mutex keeps running: nothing in a body suspends it.
FairSpecAQ == SpecAQ /\ \A t \in Threads :
                 WF_vars((Enqueue(t) \/ Dequeue(t) \/ Size(t)) /\ UNCHANGED <<cartVars, rngVars, cpuVars, tiaVars, stackVars>>)

\* One cartridge of either scheme, attached to the System; the audio queue idle.
InitSystem == InitCart /\ InitRandom /\ InitCPU /\ InitAQ /\ InitTIA /\ InitStack
SpecCart == InitSystem /\ [][NextCart]_vars

\* One cartridge with the bank switches above, or the processor without a
\* cartridge, and their save() and load() on one Serializer.
InitPersist ==
  /\ InitTIA
  /\ InitStack
  /\ scheme \in {"3E+", "E7", "DPC+", "none"}
  /\ myParameter = [i \in 0 .. 7 |-> 0]
  /\ InitCartFields
  /\ InitRandom
  /\ InitCPU
  /\ InitAQ
SpecPersist == InitPersist /\ [][NextPersist]_vars

\* The DPC+ data fetcher and parameter registers under reset, register
\* writes and reads.
NextFetchers ==
  \/ InstallDPC
  \/ ResetDPC(5)
  \/ \E addr \in SetPokesDPC, value \in FetcherValues : PokeRegDPC(addr, value)
  \/ \E addr \in StepPokesDPC, value \in FetcherValues :
       fetchSteps < MaxSteps /\ PokeRegDPC(addr, value)
  \/ \E addr \in StepPeeksDPC : fetchSteps < MaxSteps /\ PeekRegDPC(addr)
  \/ \E value \in ParameterValues : PokeRegDPC(PARAMETER, value)
  \/ \E value \in 0 .. 2 : PokeRegDPC(CALLFUNCTION, value)
InitFetchers == InitPersist /\ scheme = "DPC+"
SpecFetchers == InitFetchers /\ [][NextFetchers]_vars

\* The 3E+ bank table under every call that writes it: install, reset, the
\* hotspots, and loads of the states saved.
TableValues3E == {HotspotValue(0, 1), HotspotValue(1, 0)}
NextBankTable ==
  \/ Install3E
  \/ Reset3E
  \/ \E addr \in {BANK_SWITCH_HOTSPOT_RAM, BANK_SWITCH_HOTSPOT_ROM},
        value \in TableValues3E : Poke3E(addr, value, FALSE)
  \/ Save3E(0)
  \/ \E failAt \in FailPoints("3E+") : Load3E(failAt)
InitBankTable == InitPersist /\ scheme = "3E+"
SpecBankTable == InitBankTable /\ [][NextBankTable]_vars

\* The DPC+ cartridge with any value in the random number register, read
\* through RANDOM0NEXT and RANDOM0PRIOR.
InitSeeded ==
  /\ InitTIA
  /\ InitStack
  /\ InitAQ
  /\ scheme = "DPC+"
  /\ myParameter = [i \in 0 .. 7 |-> 0]
  /\ InitCartFields
  /\ myRandomNumber \in Seeds
  /\ rngSeed = myRandomNumber
  /\ rngForward = 0
  /\ rngBackward = 0
  /\ InitCPU
SpecRandom == InitSeeded /\ [][NextRandom]_vars

\* The DPC+ generator from the value setInitialState() gives it.
InitLFSR == InitSeeded /\ myRandomNumber = LFSRInitial
SpecLFSR == InitLFSR /\ [][NextLFSR]_vars

\* The processor alone, in a build with or without DEBUGGER_SUPPORT.
InitProcessor ==
  /\ InitTIA
  /\ InitStack
  /\ InitAQ
  /\ scheme = "none"
  /\ myParameter = [i \in 0 .. 7 |-> 0]
  /\ InitCartFields
  /\ InitRandom
  /\ InitCPUFields
  /\ debuggerSupport \in BOOLEAN
SpecCPU == InitProcessor /\ [][NextCPU]_vars

\* The processor after the TIA has set the halt callback and reset() has
\* set the registers, and devices that raise interrupts and warnings.
InitDevices ==
  /\ InitTIA
  /\ InitStack
  /\ InitAQ
  /\ scheme = "none"
  /\ myParameter = [i \in 0 .. 7 |-> 0]
  /\ InitCartFields
  /\ InitRandom
  /\ debuggerSupport \in BOOLEAN
  /\ myOnHaltCallback = TRUE
  /\ \E r \in ResetRegisters :
        /\ SP = r.SP
        /\ B = r.B
        /\ D = r.D
        /\ I = r.I
  /\ InitCPUHistory
SpecDevices == InitDevices /\ [][NextDevices]_vars

\* The processor of a build with DEBUGGER_SUPPORT after reset(), and the
\* debugger.
InitDebugger ==
  /\ InitTIA
  /\ InitStack
  /\ InitAQ
  /\ scheme = "none"
  /\ myParameter = [i \in 0 .. 7 |-> 0]
  /\ InitCartFields
  /\ InitRandom
  /\ debuggerSupport = TRUE
  /\ myOnHaltCallback = TRUE
  /\ SP = 253
  /\ B \in BOOLEAN
  /\ D = FALSE
  /\ I = FALSE
  /\ InitCPUHistory
SpecDebugger == InitDebugger /\ [][NextDebugger]_vars

\* The TIA alone: writes to two delayed registers and colour clocks.
InitDelayQueue ==
  /\ InitAQ
  /\ scheme = "none"
  /\ myParameter = [i \in 0 .. 7 |-> 0]
  /\ InitCartFields
  /\ InitRandom
  /\ InitCPU
  /\ InitTIA
  /\ InitStack
SpecTIA == InitDelayQueue /\ [][NextTIA]_vars

\* A FixedStack alone: pushes, pops and reverse().
SpecStack == InitDelayQueue /\ [][NextStack]_vars

(***************************************************************************)
(*                     Properties of the AudioQueue                        *)
(***************************************************************************)

\* Thread t's call of op returns in this step.
AQReturns(t, op) ==
  /\ aqPc[t] = "body"
  /\ aqCall[t].op = op
  /\ aqPc'[t] = "idle"

\* The ring slot holding the i-th oldest queued fragment (i = 1 .. mySize).
QueuedSlot(i) == (myNextFragment + i - 1) % Capacity
\* The enqueue numbers of the queued fragments, oldest first.
QueuedSerials == [i \in 1 .. mySize |-> aqSerial[QueuedSlot(i)]]
SeqRange(q) == {q[i] : i \in 1 .. Len(q)}
StrictlyIncreasing(q) == \A i, j \in 1 .. Len(q) : i < j => q[i] < q[j]

C1_Order ==
  /\ StrictlyIncreasing(aqDeqSerials)
  /\ StrictlyIncreasing(QueuedSerials)
  /\ \A d \in SeqRange(aqDeqSerials) \cup aqDropped :
        \A q \in SeqRange(QueuedSerials) : d < q
  /\ SeqRange(aqDeqSerials) \cap aqDropped = {}
  /\ SeqRange(aqDeqSerials) \cup aqDropped \cup SeqRange(QueuedSerials)
        = 1 .. Len(aqEnqLog)
  /\ \A i \in 1 .. mySize : myFragmentQueue[QueuedSlot(i)] = aqEnqLog[QueuedSerials[i]]
  /\ (/\ aqPc[Consumer] = "idle"
      /\ aqCall[Consumer].op = "dequeue"
      /\ aqRet[Consumer] \notin {NullFragment, Thrown})
       => /\ aqDeqSerials # <<>>
          /\ aqRet[Consumer] = aqEnqLog[aqDeqSerials[Len(aqDeqSerials)]]
  /\ (Len(aqEnqLog) = Capacity + 1 /\ aqDropped = {1} /\ mySize = 0)
       => aqDeqSerials = [i \in 1 .. Capacity |-> i + 1]

C1_DropStep ==
  aqDropped' # aqDropped =>
    /\ mySize = Capacity
    /\ aqDropped' = aqDropped \cup {QueuedSerials[1]}
    /\ \E t \in Threads : AQReturns(t, "enqueue") /\ aqCall[t].arg # NullFragment

\* C1: the fragments dequeue returns come out in the order they were enqueued,
\* each at most once; an enqueued fragment is never returned only if it was
\* overwritten while the ring was full, and it was then the oldest one.
\* Enqueueing capacity+1 fragments and dequeuing until null yields the 2nd to
\* the (capacity+1)-th, in order.
C1_FifoOrder == [] C1_Order /\ [][C1_DropStep]_vars

\* capacity+1 fragments were enqueued into the fresh queue, then all were
\* dequeued and a further dequeue returned null.
C1_Witness ==
  /\ Len(aqEnqLog) = Capacity + 1
  /\ aqDropped = {1}
  /\ Len(aqDeqSerials) = Capacity
  /\ mySize = 0
  /\ aqPc[Consumer] = "idle"
  /\ aqCall[Consumer].op = "dequeue"
  /\ aqRet[Consumer] = NullFragment

C2_Bounds ==
  /\ mySize \in 0 .. Capacity
  /\ myNextFragment \in 0 .. (Capacity - 1)

C2_FullStep ==
  \A t \in Threads :
    (AQReturns(t, "enqueue") /\ aqCall[t].arg # NullFragment /\ mySize = Capacity) =>
      /\ myFragmentQueue' = [myFragmentQueue EXCEPT ![myNextFragment] = aqCall[t].arg]
      /\ aqRet'[t] = myFragmentQueue[myNextFragment]
      /\ mySize' = Capacity
      /\ myNextFragment' = (myNextFragment + 1) % Capacity

\* C2: enqueue(f) on a full ring stores f in the slot of the oldest queued
\* fragment, returns the replaced fragment, leaves the size at capacity and
\* advances the read cursor by one modulo capacity; always
\* 0 <= size <= capacity and myNextFragment < capacity.
C2_OverwriteOldest == [] C2_Bounds /\ [][C2_FullStep]_vars

\* An enqueue on a full ring has returned, and the cursor wrapped around.
C2_Witness ==
  /\ aqPc[Producer] = "idle"
  /\ aqCall[Producer].op = "enqueue"
  /\ aqCall[Producer].arg # NullFragment
  /\ aqCall[Producer].size = Capacity
  /\ aqRet[Producer] \in AllFragments
  /\ mySize = Capacity
  /\ myNextFragment = 0
  /\ Cardinality(aqDropped) = Capacity

\* The places a fragment f is in: ring slots, hands, unspent reserves.
PlacesOf(f) ==
  Cardinality({i \in 0 .. (Capacity - 1) : myFragmentQueue[i] = f})
  + Cardinality({t \in Threads : aqHand[t] = f})
  + (IF myFirstFragmentForEnqueue = f THEN 1 ELSE 0)
  + (IF myFirstFragmentForDequeue = f THEN 1 ELSE 0)

\* C3: with a producer and a consumer that pass back the fragment they were
\* last given, each of the capacity+2 fragments is in exactly one place: one
\* ring slot, the producer's hand, the consumer's hand or an unspent reserve.
C3_ExclusiveOwnership == \A f \in AllFragments : PlacesOf(f) = 1

\* Both reserves are spent, both threads hold a fragment and the ring is full.
C3_Witness ==
  /\ aqHand[Producer] # NullFragment
  /\ aqHand[Consumer] # NullFragment
  /\ myFirstFragmentForEnqueue = NullFragment
  /\ myFirstFragmentForDequeue = NullFragment
  /\ mySize = Capacity
  /\ aqDropped # {}

C4_EmptyStep ==
  \A t \in Threads :
    (AQReturns(t, "dequeue") /\ mySize = 0) =>
      /\ aqRet'[t] = NullFragment
      /\ UNCHANGED <<myFragmentQueue, mySize, myNextFragment,
                     myFirstFragmentForEnqueue, myFirstFragmentForDequeue>>
      /\ aqHand'[t] = aqHand[t]

\* C4: dequeue on an empty queue returns null and changes nothing: ring
\* slots, size and read cursor stay, the caller keeps the fragment it passed,
\* and the dequeue-side reserved fragment is not spent.
C4_DequeueEmpty == [][C4_EmptyStep]_vars

\* dequeue(0) on the empty queue has returned null; the reserve is unspent.
C4_Witness ==
  /\ aqPc[Consumer] = "idle"
  /\ aqCall[Consumer] = [op |-> "dequeue", arg |-> NullFragment, size |-> 0]
  /\ aqRet[Consumer] = NullFragment
  /\ myFirstFragmentForDequeue # NullFragment
  /\ aqEnqLog # <<>>

C5_Reserves ==
  /\ myFirstFragmentForEnqueue # NullFragment =>
       /\ myFirstFragmentForEnqueue # myFirstFragmentForDequeue
       /\ \A i \in 0 .. (Capacity - 1) : myFragmentQueue[i] # myFirstFragmentForEnqueue
       /\ \A t \in Threads : aqHand[t] # myFirstFragmentForEnqueue
  /\ myFirstFragmentForDequeue # NullFragment =>
       /\ \A i \in 0 .. (Capacity - 1) : myFragmentQueue[i] # myFirstFragmentForDequeue
       /\ \A t \in Threads : aqHand[t] # myFirstFragmentForDequeue

C5_NullStep ==
  /\ \A t \in Threads :
       (AQReturns(t, "enqueue") /\ aqCall[t].arg = NullFragment) =>
         /\ UNCHANGED <<myFragmentQueue, mySize, myNextFragment,
                        myFirstFragmentForDequeue>>
         /\ IF myFirstFragmentForEnqueue # NullFragment
            THEN /\ aqRet'[t] = myFirstFragmentForEnqueue
                 /\ myFirstFragmentForEnqueue' = NullFragment
            ELSE /\ aqRet'[t] = Thrown
                 /\ UNCHANGED myFirstFragmentForEnqueue
  /\ myFirstFragmentForEnqueue' # myFirstFragmentForEnqueue =>
       /\ myFirstFragmentForEnqueue' = NullFragment
       /\ \E t \in Threads : AQReturns(t, "enqueue") /\ aqCall[t].arg = NullFragment
  /\ myFirstFragmentForDequeue' # myFirstFragmentForDequeue =>
       /\ myFirstFragmentForDequeue' = NullFragment
       /\ \E t \in Threads : /\ AQReturns(t, "dequeue")
                             /\ aqCall[t].arg = NullFragment
                             /\ aqRet'[t] \in AllFragments

\* C5: the first enqueue(null) returns the enqueue-side reserved fragment and
\* leaves ring, size and cursor alone; every later enqueue(null) throws and
\* changes nothing.  The two reserved fragments differ from each other and
\* from every fragment in the ring or in a caller's hand, and each is given
\* out at most once: once spent, a reserve stays spent.
C5_EnqueueNull == [] C5_Reserves /\ [][C5_NullStep]_vars

\* A second enqueue(null) has thrown.
C5_Witness ==
  /\ aqPc[Producer] = "idle"
  /\ aqCall[Producer].op = "enqueue"
  /\ aqCall[Producer].arg = NullFragment
  /\ aqRet[Producer] = Thrown
  /\ myFirstFragmentForEnqueue = NullFragment

C6_Atomic ==
  /\ \A t, u \in Threads : (aqPc[t] = "body" /\ aqPc[u] = "body") => t = u
  /\ \A t \in Threads : aqPc[t] = "body" <=> myMutex = t
  /\ \A t \in Threads :
       aqPc[t] = "body" => ENABLED (Enqueue(t) \/ Dequeue(t) \/ Size(t))
  /\ \A t \in Threads :
       (aqPc[t] = "lock" /\ myMutex = NoThread) => ENABLED AQLock(t)

\* C6: enqueue, dequeue and size run under the one mutex, so at most one
\* thread is inside a body; the thread holding the mutex can always finish
\* its call (no call waits for queue contents), a thread waiting for a free
\* mutex can take it, and every call that holds the mutex returns.
C6_NoBlocking ==
  /\ [] C6_Atomic
  /\ \A t \in Threads : (aqPc[t] = "body") ~> (aqPc[t] = "idle")

\* The consumer holds the mutex over an empty ring while the producer waits.
C6_Witness ==
  /\ aqPc[Consumer] = "body"
  /\ aqCall[Consumer].op = "dequeue"
  /\ mySize = 0
  /\ aqPc[Producer] = "lock"
  /\ myMutex = Consumer

(***************************************************************************)
(*                   Properties of the bank switching                      *)
(***************************************************************************)

\* The bank registers and the installed page mappings.
BankRegisters == <<bankInUse, myCurrentSlice, myCurrentRAM, myBankOffset>>
\* The first and last byte of every page of a segment of the given size.
SegmentOffsets(size) ==
  {p * PAGE_SIZE + o : p \in 0 .. ((size \div PAGE_SIZE) - 1), o \in {0, PAGE_SIZE - 1}}

\* C7: while the cartridge is bank-locked, every attempt to switch banks -
\* a direct call of bankROM, bankRAM or bank, or a peek or poke that may hit
\* a hotspot - leaves bankInUse, myCurrentSlice, myCurrentRAM, myBankOffset
\* and every page mapping as they were, and the bool-returning calls
\* (3E+ bankROM and bankRAM, M-Network and DPC+ bank) return false.
C7_LockedStep ==
  (myBankLocked /\ cartOp' \in {"bankROM", "bankRAM", "bank", "peek", "poke"})
    => /\ UNCHANGED <<BankRegisters, pageAccess>>
       /\ myBankLocked'
       /\ (cartOp' \in {"bankROM", "bank"} \/ (cartOp' = "bankRAM" /\ scheme = "3E+"))
            => cartRet' = FALSE
C7_LockedSwitchIsNoOp == [][C7_LockedStep]_vars

\* A locked 3E+ cartridge has just refused a direct bankROM call.
C7_Witness ==
  /\ scheme = "3E+"
  /\ myBankLocked
  /\ cartOp = "bankROM"
  /\ cartRet = FALSE

\* The segment and the bank a value written to a 3E+ hotspot names.
SegmentOf(v) == Low(Shr(v, BANK_BITS), 3)
BankOf(v) == Low(v, BIT_BANK_MASK)

\* The address range 0x1000 + k, k in offsets, reads the image from base on.
ReadsImage(s, start, base, offsets) ==
  \A k \in offsets : PeekValues(s, start + k) = {ImageByte(base + k)}

\* C8: in the state a successful (unlocked) switch to a bank of the image
\* leaves, whatever reachable state it is made in, reads of the switched
\* segment return the image bytes of that bank.  3E+: a write of v to the ROM
\* hotspot (or bankROM(v)) makes 0x1000 + s*0x400 + k read image[b*0x400 + k];
\* M-Network: bank(n), n # bankCount()-1, called directly or through hotspot
\* 1FE0+n, makes 0x1000 + k read image[n*0x800 + k].
C8_Switched3E ==
  (scheme = "3E+" /\ installed /\ ~myBankLocked)
    => \A v \in HotspotValues3E :
         BankOf(v) < BankCount3E
           => \A s \in {BankROM(CartState, v),
                        Poke3EState(CartState, BANK_SWITCH_HOTSPOT_ROM, v, FALSE)} :
                /\ s.ret
                /\ ReadsImage(s, 4096 + SegmentOf(v) * ROM_BANK_SIZE,
                              BankOf(v) * ROM_BANK_SIZE, SegmentOffsets(ROM_BANK_SIZE))
C8_SwitchedMN ==
  (scheme = "E7" /\ installed /\ ~myBankLocked)
    => \A n \in SlicesMN \ {RAMSliceMN}, value \in DataValues, rnd \in RandomBytes :
         \A s \in {BankMN(CartState, n), PokeMNState(CartState, 8160 + n, value),
                    PeekMNState(CartState, 8160 + n, rnd)} :
           ReadsImage(s, 4096, n * BANK_SIZE, SegmentOffsets(BANK_SIZE))
C8_SwitchedBankReadsImage == C8_Switched3E /\ C8_SwitchedMN

\* Bank 1 has just been switched into segment 1 through the ROM hotspot, and
\* the first byte of the segment reads the first byte of bank 1.
C8_Witness ==
  /\ scheme = "3E+"
  /\ cartOp = "poke"
  /\ cartRet
  /\ ~myBankLocked
  /\ bankInUse[2] = HotspotValue(1, 1)
  /\ PeekValues(CartState, 5120) = {ImageByte(ROM_BANK_SIZE)}

\* C9: after a write of v to the 3E+ ROM hotspot on an unlocked cartridge,
\* getBank(a) returns the bank b = v & BIT_BANK_MASK for every address a of
\* the segment s = (v >> BANK_BITS) & 3 just switched.
C9_Step ==
  \A v \in HotspotValues3E :
    (/\ ~myBankLocked
     /\ \E tiaChanged \in BOOLEAN : Poke3E(BANK_SWITCH_HOTSPOT_ROM, v, tiaChanged))
      => \A k \in SegmentOffsets(ROM_BANK_SIZE) :
           GetBank3E(4096 + SegmentOf(v) * ROM_BANK_SIZE + k)' = BankOf(v)
C9_GetBankReportsSwitched == [][C9_Step]_vars

\* C10: once an M-Network cartridge is installed, the upper 2K segment stays
\* on the last 2K of the image whatever is reset, read, written or switched:
\* getBank(0x1800) is bankCount()-1 and the ROM pages 0x1A00-0x1FBF read
\* image[(bankCount()-1)*0x800 + (addr & 0x7FF)].
C10_FixedUpperSegment ==
  (scheme = "E7" /\ installed)
    => /\ GetBankMN(6144) = BankCountMN - 1
       /\ \A k \in SegmentOffsets(FixedSegmentSize) :
            PeekValues(CartState, 6656 + k)
              = {ImageByte((BankCountMN - 1) * BANK_SIZE + Low(6656 + k, BANK_SIZE - 1))}

\* Slice 1 has just been switched into the lower segment and the upper
\* segment still reports the last slice.
C10_Witness ==
  /\ scheme = "E7"
  /\ installed
  /\ cartOp = "bank"
  /\ cartRet
  /\ myCurrentSlice[0] = 1
  /\ GetBankMN(6144) = BankCountMN - 1
  /\ PeekValues(CartState, 8127) = {ImageByte(RomSizeMN - 65)}

\* The page mappings of the addresses start .. start + size - 1.
MappingsOf(pa, start, size) ==
  [p \in PageOf(start) .. PageOf(start + size - 1) |-> pa[p]]

\* C11: M-Network bankRAM(r) leaves myCurrentSlice and the mappings of
\* 0x1000-0x17FF unchanged, bank(n) leaves myCurrentRAM and the mappings of
\* 0x1800-0x19FF unchanged, and bankRAM(r) then bank(n) ends in the same state
\* as bank(n) then bankRAM(r), from every reachable state.
C11_Frame ==
  (scheme = "E7" /\ installed)
    => \A r \in RAMBanksMN, n \in SlicesMN \cup {BankCountMN} :
         LET a == BankRAMMN(CartState, r)
             b == BankMN(CartState, n)
         IN /\ a.myCurrentSlice = myCurrentSlice
            /\ MappingsOf(a.pageAccess, 4096, BANK_SIZE) = MappingsOf(pageAccess, 4096, BANK_SIZE)
            /\ b.myCurrentRAM = myCurrentRAM
            /\ MappingsOf(b.pageAccess, 6144, 512) = MappingsOf(pageAccess, 6144, 512)
            /\ StateOf(BankMN(a, n)) = StateOf(BankRAMMN(b, r))
C11_Step ==
  /\ (scheme = "E7" /\ cartOp' = "bankRAM")
       => /\ UNCHANGED myCurrentSlice
          /\ MappingsOf(pageAccess, 4096, BANK_SIZE)' = MappingsOf(pageAccess, 4096, BANK_SIZE)
  /\ (scheme = "E7" /\ cartOp' = "bank")
       => /\ UNCHANGED myCurrentRAM
          /\ MappingsOf(pageAccess, 6144, 512)' = MappingsOf(pageAccess, 6144, 512)
C11_RAMBankAndSliceIndependent == [] C11_Frame /\ [][C11_Step]_vars

\* bankRAM(1) has just been called with slice 1 in the lower segment, which
\* is still there.
C11_Witness ==
  /\ scheme = "E7"
  /\ cartOp = "bankRAM"
  /\ ~myBankLocked
  /\ myCurrentRAM = 1
  /\ myCurrentSlice[0] = 1
  /\ PeekValues(CartState, 4096) = {ImageByte(BANK_SIZE)}

\* s.myRAM differs from myRAM in the cell at offset cell only, which holds value.
OnlyCellWritten(s, cell, value) ==
  /\ DOMAIN s.myRAM = DOMAIN myRAM \cup {cell}
  /\ s.myRAM[cell] = value
  /\ \A o \in DOMAIN myRAM \ {cell} : s.myRAM[o] = myRAM[o]
\* Offsets into the 1K RAM and into a 256 byte RAM bank.
Offsets1K == {0, 1, 255, 256, 1023}
Offsets256 == {0, 1, 255}
\* The pages of start .. start + size - 1 all have the given access type and
\* a direct peek base in the given buffer ("none": no direct peek base).
PortPages(s, start, size, type, buf) ==
  \A p \in PageOf(start) .. PageOf(start + size - 1) :
    s.pageAccess[p].type = type /\ s.pageAccess[p].buf = buf

\* C12: M-Network bank(bankCount()-1) maps the 1K RAM into the lower segment,
\* write port 0x1000-0x13FF and read port 0x1400-0x17FF; the selected 256 byte
\* RAM bank has its write port at 0x1800-0x18FF and its read port at
\* 0x1900-0x19FF.  A value poked at write-port offset k is read at read-port
\* offset k, that poke changes no other RAM byte (for the 256 byte port: only
\* the byte of the selected RAM bank), and a poke to a read-port address
\* changes no RAM byte.
C12_RAMPorts ==
  (scheme = "E7" /\ installed)
    => /\ ~myBankLocked =>
            LET s == BankMN(CartState, RAMSliceMN)
            IN /\ PortPages(s, 4096, 1024, "WRITE", "none")
               /\ PortPages(s, 5120, 1024, "READ", "ram")
       /\ PortPages(CartState, 6144, 256, "WRITE", "none")
       /\ PortPages(CartState, 6400, 256, "READ", "ram")
       /\ myCurrentSlice[0] = RAMSliceMN =>
            \A k \in Offsets1K, value \in DataValues :
              /\ LET s == PokeMNState(CartState, 4096 + k, value)
                 IN /\ PeekValues(s, 5120 + k) = {value}
                    /\ OnlyCellWritten(s, k, value)
              /\ PokeMNState(CartState, 5120 + k, value).myRAM = myRAM
       /\ \A k \in Offsets256, value \in DataValues :
            /\ LET s == PokeMNState(CartState, 6144 + k, value)
               IN /\ PeekValues(s, 6400 + k) = {value}
                  /\ OnlyCellWritten(s, 1024 + myCurrentRAM * 256 + k, value)
            /\ PokeMNState(CartState, 6400 + k, value).myRAM = myRAM

\* A poke to the 1K write port has just stored the data byte, and the read
\* port shows it.
C12_Witness ==
  /\ scheme = "E7"
  /\ cartOp = "poke"
  /\ cartRet
  /\ myCurrentSlice[0] = RAMSliceMN
  /\ \E value \in DataValues : PeekValues(CartState, 5120) = {value}

\* The 512 byte slot of the 3E+ table an address falls in.
SlotOf(addr) == Low(Shr(Low(addr, 4095), ROM_BANK_TO_POWER - 1), 7)
\* The first and last address of each of the eight 512 byte slots.
SlotAddrs3E == {4096 + b * RAM_BANK_SIZE + o : b \in 0 .. 7, o \in {0, RAM_BANK_SIZE - 1}}

\* C13: a 3E+ read of an address whose slot is undefined goes to the
\* cartridge's peek, may return any byte the random generator gives, and
\* changes neither bankInUse nor RAM nor any other cartridge state.
C13_UndefinedRead ==
  (scheme = "3E+" /\ installed)
    => \A addr \in SlotAddrs3E :
         bankInUse[SlotOf(addr)] = BANK_UNDEFINED
           => /\ pageAccess[PageOf(addr)].buf = "none"
              /\ PeekValues(CartState, addr) = AnyByte
              /\ \A rnd \in RandomBytes : Peek3EState(CartState, addr, rnd) = CartState
\* C13: a slot that is undefined becomes defined only by a bank switch that
\* targets its segment (through a hotspot, a direct call, or the two switches
\* install() and reset() make), on an unlocked cartridge.
C13_Step ==
  \A b \in 0 .. 7 :
    (installed /\ bankInUse[b] = BANK_UNDEFINED /\ bankInUse'[b] # BANK_UNDEFINED)
      => /\ ~myBankLocked
         /\ cartOp' \in {"poke", "bankROM", "bankRAM", "reset"}
         /\ SegmentOf(bankInUse'[b]) = b \div 2
\* C13: undefined slots read as random bytes without side effects and stay
\* undefined until their segment is switched.
C13_UndefinedSlots == [] C13_UndefinedRead /\ [][C13_Step]_vars

\* A read has just been made while every slot is undefined (after a reset of
\* a locked cartridge); RAM is still untouched.
C13_Witness ==
  /\ scheme = "3E+"
  /\ cartOp = "peek"
  /\ \A b \in 0 .. 7 : bankInUse[b] = BANK_UNDEFINED
  /\ myRAM = << >>
(***************************************************************************)
(* C14: bank state round trip.  A load() that succeeded has restored the   *)
(* bank registers of the 3E+ (bankInUse) and M-Network (myCurrentSlice,    *)
(* myCurrentRAM) cartridge to the values in the stream and has installed   *)
(* the page mappings that were in effect when the stream was saved, bank   *)
(* locked or not.                                                          *)
(***************************************************************************)
C14_Loaded ==
  /\ cartOp = "load"
  /\ cartRet
  /\ scheme \in {"3E+", "E7"}

C14_BankStateRoundTrip ==
  C14_Loaded =>
    /\ scheme = "3E+" => bankInUse = myStream.bankInUse
    /\ scheme = "E7" => /\ myCurrentSlice = myStream.myCurrentSlice
                        /\ myCurrentRAM = myStream.myCurrentRAM
    /\ pageAccess = myStream.saved.pageAccess

(***************************************************************************)
(* C15: DPC+ save-then-load round trip.  A load() that succeeded has       *)
(* restored the state that later accesses depend on to its value at the    *)
(* time of the save: the bank offset, the parameter buffer and the         *)
(* parameter pointer, so that the next PARAMETER write stores its value    *)
(* where it would have been stored in the saved state.                     *)
(***************************************************************************)
C15_Loaded ==
  /\ cartOp = "load"
  /\ cartRet
  /\ scheme = "DPC+"

\* The state the stream was saved in, as far as it is modelled.
C15_SavedState ==
  [CartState EXCEPT !.myBankOffset = myStream.myBankOffset,
                    !.myParameter = myStream.myParameter,
                    !.myParameterPointer = myStream.saved.myParameterPointer]

C15_RoundTripDPC ==
  C15_Loaded =>
    /\ myBankOffset = myStream.myBankOffset
    /\ myParameter = myStream.myParameter
    /\ myParameterPointer = myStream.saved.myParameterPointer
    /\ \A value \in {0, 7} :
         PokeValueDPCState(CartState, PARAMETER, value).myParameter
           = PokeValueDPCState(C15_SavedState, PARAMETER, value).myParameter

(***************************************************************************)
(* C17: the DPC+ LFSR.  priorClockRandomNumberGenerator is the inverse of  *)
(* clockRandomNumberGenerator on 32-bit values: after as many calls of the *)
(* one as of the other the register holds the value it started with, and   *)
(* from every value reached, n calls forward followed by n calls backward, *)
(* or backward followed by forward, give the value back.                   *)
(***************************************************************************)
RECURSIVE ClockTimes(_, _)
ClockTimes(r, n) ==
  IF n = 0 THEN r ELSE ClockTimes(clockRandomNumberGenerator(r), n - 1)
RECURSIVE PriorClockTimes(_, _)
PriorClockTimes(r, n) ==
  IF n = 0 THEN r ELSE PriorClockTimes(priorClockRandomNumberGenerator(r), n - 1)

C17_PriorClockIsInverse ==
  /\ myRandomNumber \subseteq Word32
  /\ rngForward = rngBackward => myRandomNumber = rngSeed
  /\ \A n \in 0 .. MaxClocks :
       /\ PriorClockTimes(ClockTimes(myRandomNumber, n), n) = myRandomNumber
       /\ ClockTimes(PriorClockTimes(myRandomNumber, n), n) = myRandomNumber

\* The register was clocked forward through the feedback tap and is back.
C17_Witness ==
  /\ rngForward = MaxClocks
  /\ rngBackward = MaxClocks
  /\ 10 \in rngSeed
  /\ rngSeed # {}
  /\ myRandomNumber = rngSeed

(***************************************************************************)
(* C16: persistence failures never escape.  A save() or load() of the      *)
(* processor or of a cartridge in which a Serializer call throws returns   *)
(* false and lets no exception out; one in which none throws returns true. *)
(***************************************************************************)
C16_FailuresAreReturned ==
  /\ cartOp \in {"save", "load"} =>
       /\ ~cartThrown
       /\ cartRet <=> cartFailAt = 0
  /\ cpuOp \in {"save", "load"} =>
       /\ ~cpuThrown
       /\ cpuRet <=> cpuFailAt = 0

\* A load() of the M-Network cartridge failed after it had read the bank
\* registers.
C16_Witness ==
  /\ scheme = "E7"
  /\ cartOp = "load"
  /\ cartFailAt = 3
  /\ ~cartRet
  /\ myCurrentSlice = myStream.myCurrentSlice

(***************************************************************************)
(* C18: an invalid instruction is immediately fatal.  In an execute() the  *)
(* only opcode fetched that has no instruction entry is the last one, and  *)
(* execute() then returns a fatal result with the message of the error and *)
(* the cycles consumed up to it, whatever is left of the cycles given.     *)
(***************************************************************************)
C18_InvalidFetched ==
  /\ cpuOp = "execute"
  /\ ~cpuThrown
  /\ cpuTrace # << >>
  /\ cpuTrace[Len(cpuTrace)] \notin InstructionEntries

C18_InvalidOpcodeIsFatal ==
  /\ (cpuOp = "execute" /\ ~cpuThrown) =>
       \A i \in 1 .. Len(cpuTrace) :
         cpuTrace[i] \notin InstructionEntries => i = Len(cpuTrace)
  /\ C18_InvalidFetched =>
       /\ cpuResult.status = "fatal"
       /\ cpuResult.message = "invalid instruction"
       /\ cpuResult.cycles = cpuBus * SYSTEM_CYCLES_PER_CPU + cpuHaltCycles
       /\ FatalErrorBit \in myExecutionStatus

\* The invalid opcode was fetched after another instruction, with cycles
\* left.
C18_Witness ==
  /\ C18_InvalidFetched
  /\ Len(cpuTrace) >= 2
  /\ cpuResult.status = "fatal"
  /\ cpuResult.cycles < cpuBudget * SYSTEM_CYCLES_PER_CPU

(***************************************************************************)
(* C19: a fatal error is unrecoverable.  Once execute() has returned a     *)
(* fatal result, an execute() called before the next reset() fetches no    *)
(* instruction, makes no bus access and does not return success.           *)
(***************************************************************************)
C19_Step ==
  (cpuFatal /\ cpuOp' = "execute") =>
    /\ cpuTrace' = << >>
    /\ cpuBus' = 0
    /\ cpuResult'.status # "ok"

C19_FatalStaysHalted == [][C19_Step]_vars

(***************************************************************************)
(* C20: requestHalt().  Without a halt callback it raises an error and     *)
(* leaves myHaltRequested false; with one it sets myHaltRequested.  Every  *)
(* request is served by one call of the callback, however many times it    *)
(* was made before, and myHaltRequested is false after the call; reset()   *)
(* drops a pending request.                                                *)
(***************************************************************************)
C20_Requests ==
  /\ haltOutstanding = (IF myHaltRequested THEN 1 ELSE 0)
  /\ myHaltRequested => (myOnHaltCallback /\ haltRequests >= 1)
  /\ ~myHaltRequested => haltRequests = 0
  /\ cpuOp = "requestHalt" =>
       /\ cpuThrown <=> ~myOnHaltCallback
       /\ myHaltRequested <=> myOnHaltCallback
  /\ \A h \in HaltCycles :
       /\ ~HandleHalt(CpuState, h).myHaltRequested
       /\ HandleHalt(CpuState, h).haltOutstanding = 0
       /\ HandleHalt(HandleHalt(CpuState, h), h) = HandleHalt(CpuState, h)

C20_Step ==
  /\ cpuOp' = "requestHalt" =>
       /\ ~myOnHaltCallback => (cpuThrown' /\ ~myHaltRequested' /\ ~myHaltRequested)
       /\ myOnHaltCallback => (~cpuThrown' /\ myHaltRequested')
       /\ haltOutstanding' = (IF myOnHaltCallback THEN 1 ELSE 0)
  /\ (/\ cpuOp' = "execute"
      /\ myHaltRequested
      /\ cpuBus' > 0
      /\ \A i \in 1 .. Len(cpuTrace') : cpuTrace'[i] # STA_ZP) =>
       /\ haltHandled' = haltRequests
       /\ ~myHaltRequested'
       /\ cpuHaltCycles' \in HaltCycles

TIAAddrs3E == {addr \in Addrs3E : ~HasBit(addr, 4096)}
PokeValues3E(addr) ==
  IF addr = BANK_SWITCH_HOTSPOT_ROM THEN HotspotValues3E
  ELSE IF addr = BANK_SWITCH_HOTSPOT_RAM THEN RAMHotspotValues3E
  ELSE DataValues

C29_TIAWritesForwarded ==
  (scheme = "3E+" /\ installed) =>
    \A addr \in TIAAddrs3E, tiaChanged \in BOOLEAN :
      \A value \in PokeValues3E(addr) :
        Poke3EState(CartState, addr, value, tiaChanged).tiaPoke = <<addr>>

(***************************************************************************)
(* C30: the ROM bank a write to the ROM hotspot selects is restricted to   *)
(* the banks of the image (bank < bankCount() = size >> 10), so every page *)
(* base bankROMSlot installs lies inside the ROM image.                    *)
(***************************************************************************)
C30_ROMPagesInsideImage ==
  scheme = "3E+" =>
    \A p \in Pages :
      pageAccess[p].buf = "image" =>
        /\ pageAccess[p].off + PAGE_SIZE <= Size3E
        /\ pageAccess[p].off \div ROM_BANK_SIZE < BankCount3E

(***************************************************************************)
(* C21: a halt takes effect only at an instruction boundary.  After        *)
(* requestHalt() was called during an instruction the halt callback is not *)
(* called between two bus accesses of that instruction: it is called       *)
(* before the opcode fetch of the next instruction or at the end of        *)
(* execute().                                                              *)
(***************************************************************************)
C21_HaltAtInstructionBoundary ==
  cpuOp = "execute" =>
    \A i \in 1 .. Len(cpuLog) :
      cpuLog[i].kind = "halt" =>
        \/ i = Len(cpuLog)
        \/ cpuLog[i + 1].kind = "fetch"

(***************************************************************************)
(* C22: interrupts are deferred to instruction boundaries.                 *)
(* interruptHandler() never runs between two bus accesses of one           *)
(* instruction, and an interrupt bit raised while an instruction executes  *)
(* lets the instruction go on and is processed by interruptHandler()       *)
(* before the next opcode fetch.                                           *)
(***************************************************************************)
\* The entries of the history that are bus accesses of an instruction, and
\* those made by interruptHandler().
IsAccess(e) == e.kind \in {"fetch", "peek", "poke"}
IsHandler(e) == e.kind \in {"interrupt", "masked"}

C22_HandlerBetweenInstructions ==
  \A j \in 1 .. Len(cpuLog) :
    IsHandler(cpuLog[j]) =>
      \A i \in 1 .. (j - 1), k \in (j + 1) .. Len(cpuLog) :
        (IsAccess(cpuLog[i]) /\ IsAccess(cpuLog[k])) => cpuLog[i].ins # cpuLog[k].ins

\* Every interrupt raised in the last execute() was followed by a call of
\* interruptHandler() with no opcode fetch in between.
C22_RaisedIsProcessed ==
  \A i \in 1 .. Len(cpuLog) :
    cpuLog[i].raised \cap {"irq", "nmi"} # {} =>
      \E j \in (i + 1) .. Len(cpuLog) :
        /\ IsHandler(cpuLog[j])
        /\ \A m \in (i + 1) .. (j - 1) : cpuLog[m].kind # "fetch"

C22_InterruptsDeferred ==
  cpuOp = "execute" => (C22_HandlerBetweenInstructions /\ C22_RaisedIsProcessed)

(***************************************************************************)
(* C23: servicing an interrupt pushes three bytes on the stack page at     *)
(* 0x0100 + SP: the high byte of the program counter, its low byte and the *)
(* status byte with the break bit clear, SP going down by one after each   *)
(* push (modulo 256), then loads PC from 0xFFFE/0xFFFF for a maskable      *)
(* interrupt (serviced only when I is clear, and setting I) or from        *)
(* 0xFFFA/0xFFFB for a non-maskable one; D is cleared and the clock        *)
(* advances by exactly 7 processor cycles.                                 *)
(***************************************************************************)
\* Entry i of the history is where interruptHandler() services an
\* interrupt.
C23_Serviced(i) == cpuLog[i].kind = "interrupt"

\* The stack address the k-th push of a handler that found the top of the
\* stack at address top goes to.
C23_PushAddress(top, k) == 256 + ((top - 256 + 256 - (k - 1)) % 256)

C23_InterruptPushes ==
  cpuOp = "execute" =>
    \A i \in 1 .. Len(cpuLog) :
      C23_Serviced(i) =>
        LET status == cpuLog[i - 1]
            pc == cpuLog[i].value
            vector == cpuLog[i].address
            raised == UNION {cpuLog[m].raised : m \in 1 .. i}
        IN /\ Len(cpuLog) >= i + 4
           /\ \A k \in 1 .. 3 :
                /\ cpuLog[i + k].kind = "push"
                /\ cpuLog[i + k].address = C23_PushAddress(status.address, k)
           /\ cpuLog[i + 1].value = pc \div 256
           /\ cpuLog[i + 2].value = pc % 256
           /\ cpuLog[i + 3].value = status.value - (IF HasBit(status.value, 16) THEN 16 ELSE 0)
           /\ cpuLog[i + 4].kind = "vector"
           /\ cpuLog[i + 4].value = Vector(vector)
           /\ cpuLog[i + 4].cycles = status.cycles + 7 * SYSTEM_CYCLES_PER_CPU
           /\ vector \in {IRQVector, NMIVector}
           /\ vector = IRQVector => ("irq" \in raised /\ ~HasBit(status.value, 4) /\ I)
           /\ vector = NMIVector => "nmi" \in raised
           /\ ~D

(***************************************************************************)
(* C24: execute(n) terminates and is bounded by its cycle budget.  Every   *)
(* instruction executed advances the clock by at least one processor       *)
(* cycle, no instruction is started once the cycles consumed since entry   *)
(* have reached n * SYSTEM_CYCLES_PER_CPU, a run that nothing else stops   *)
(* returns ok with at least the budget consumed, and execute(0) executes   *)
(* no instruction and returns ok with 0 cycles.                            *)
(***************************************************************************)
\* The clock at entry i of the history, and before it.
C24_ClockBefore(i) == IF i = 1 THEN 0 ELSE cpuLog[i - 1].cycles

C24_BoundedByBudget ==
  (cpuOp = "execute" /\ ~cpuThrown) =>
    /\ \A i \in 1 .. Len(cpuLog) :
         cpuLog[i].kind = "begin" =>
           /\ C24_ClockBefore(i) < cpuBudget * SYSTEM_CYCLES_PER_CPU
           /\ \E j \in (i + 1) .. Len(cpuLog) :
                /\ cpuLog[j].kind = "fetch"
                /\ cpuLog[j].ins = cpuLog[i].ins
                /\ cpuLog[j].cycles >= C24_ClockBefore(i) + SYSTEM_CYCLES_PER_CPU
    /\ (cpuResult.status = "ok" /\ StopExecutionBit \notin myExecutionStatus) =>
         cpuResult.cycles >= cpuBudget * SYSTEM_CYCLES_PER_CPU
    /\ cpuBudget = 0 =>
         /\ cpuTrace = << >>
         /\ cpuBus = 0
         /\ cpuResult.status = "ok"
         /\ cpuResult.cycles = 0

(***************************************************************************)
(* C26: an EmulationWarning raised while an instruction executes makes     *)
(* execute() return at once with a result that is not fatal and carries    *)
(* the message of the warning and the program counter; the fatal status is *)
(* not set, and the next execute() goes on executing instructions from the *)
(* program counter the warning left.                                       *)
(***************************************************************************)
\* Entry i of the history is the bus access a device answered with an
\* EmulationWarning.
C26_WarnedAt(i) == "warn" \in cpuLog[i].raised

\* The last execute() ended in an EmulationWarning.
C26_Warned ==
  /\ cpuOp = "execute"
  /\ \E i \in 1 .. Len(cpuLog) : C26_WarnedAt(i)

C26_ReturnsAtOnce ==
  cpuOp = "execute" =>
    \A i \in 1 .. Len(cpuLog) :
      C26_WarnedAt(i) =>
        /\ \A j \in (i + 1) .. Len(cpuLog) : cpuLog[j].kind = "halt" /\ debuggerSupport
        /\ ~cpuThrown
        /\ cpuResult.status = "debugger"
        /\ cpuResult.message = "warning"
        /\ cpuResult.address = PC
        /\ FatalErrorBit \notin myExecutionStatus

C26_Resumes ==
  (C26_Warned /\ cpuOp' = "execute" /\ cpuBudget' > 0) =>
    /\ cpuLog'[1].kind = "begin"
    /\ cpuLog'[1].address = PC
    /\ \E i \in 2 .. 3 :
         /\ cpuLog'[i].kind = "fetch"
         /\ cpuLog'[i].address = PC
         /\ cpuLog'[i].ins = 1
    /\ cpuBus' >= 1

C26_WarningIsResumable == [] C26_ReturnsAtOnce /\ [][C26_Resumes]_vars

\* A warning ended an execute(), and the next execute() ran two
\* instructions.
C26_Witness ==
  /\ cpuOp = "execute"
  /\ cpuResumes
  /\ Len(cpuTrace) >= 2
  /\ cpuResult.status = "ok"

(***************************************************************************)
(* C27: the cycle counter of the System is monotonic during execute(): it  *)
(* never decreases, every peek and every poke of the processor advances it *)
(* by exactly SYSTEM_CYCLES_PER_CPU before the bus is accessed, and the    *)
(* cycles the result reports are its increase since entry as measured      *)
(* behind the last instruction that completed.                             *)
(***************************************************************************)
\* The instruction of the last execute() an EmulationWarning ended, or 0.
C27_Abandoned ==
  IF \E i \in 1 .. Len(cpuLog) : "warn" \in cpuLog[i].raised
  THEN cpuLog[Len(cpuLog)].ins
  ELSE 0

\* The bus accesses of the instructions of the last execute() that
\* completed, and the clock behind the last of them.
C27_Completed ==
  {i \in 1 .. Len(cpuLog) : IsAccess(cpuLog[i]) /\ cpuLog[i].ins # C27_Abandoned}
C27_Measured ==
  IF C27_Completed = {} THEN 0
  ELSE cpuLog[CHOOSE i \in C27_Completed : \A j \in C27_Completed : j <= i].cycles

C25_Stopped == cpuOp = "execute" /\ cpuBreak # "none"

C25_DebuggerMatch ==
  C25_Stopped =>
    /\ cpuLog = << >> \/ cpuLog[Len(cpuLog)].kind # "begin"
    /\ cpuResult.status = "debugger"
    /\ cpuResult.message # ""
    /\ cpuResult.cycles <= cpuBudget * SYSTEM_CYCLES_PER_CPU
    /\ cpuBreak = "trap" =>
         /\ cpuResult.message = myHitTrapInfo.message
         /\ cpuResult.address = myHitTrapInfo.address
         /\ cpuResult.wasReadTrap <=> (myHitTrapInfo.message = "RTrap")
    /\ cpuBreak = "one-shot" => PC \notin DOMAIN myBreakPoints

(***************************************************************************)
(* C28: a register write scheduled with delay d has no effect on the       *)
(* register during the first d clocks after the write and is in effect     *)
(* from clock d on (until a later write to the register comes due);        *)
(* writes that come due in the same clock are applied in the order in      *)
(* which they were written.                                                *)
(***************************************************************************)
C28_DelayedWrites ==
  /\ tiaRegisters = tiaDue
  /\ tiaApplied = tiaFired
  /\ \A i \in 1 .. Len(tiaWritten) :
       LET w == tiaWritten[i]
           slot == (myDelayQueue.myIndex + w.left) % delayQueueLength
       IN \E k \in 1 .. Len(myDelayQueue.myMembers[slot]) :
             /\ myDelayQueue.myMembers[slot][k].address = w.address
             /\ myDelayQueue.myMembers[slot][k].value = w.value

\* Two writes of different values to one register came due in the clock in
\* which the ring wrapped round to slot 0, the register holds the value
\* written last and the other register was never written.
C28_Witness ==
  /\ Len(tiaApplied) = 2
  /\ tiaApplied[1].address = tiaApplied[2].address
  /\ tiaApplied[1].value # tiaApplied[2].value
  /\ tiaRegisters[tiaApplied[2].address] = tiaApplied[2].value
  /\ myDelayQueue.myIndex = 0
  /\ \E a \in DelayedRegisters : tiaRegisters[a] = 0

(***************************************************************************)
(* C37: a non-maskable interrupt request pending at an instruction         *)
(* boundary is never lost.  Whenever interruptHandler() runs with the      *)
(* request bit of the NMI set it services the NMI (the pushes, and PC      *)
(* loaded from 0xFFFA/0xFFFB) before the bit is cleared, whatever flag I   *)
(* is and whether or not a maskable interrupt is requested as well.        *)
(***************************************************************************)
\* interruptHandler() at entry j of the history finds the NMI requested: a
\* device called nmi() since the call began or since the handler last ran.
C37_NMIPending(j) ==
  /\ IsHandler(cpuLog[j])
  /\ \E i \in 1 .. (j - 1) :
       /\ "nmi" \in cpuLog[i].raised
       /\ \A m \in (i + 1) .. (j - 1) : ~IsHandler(cpuLog[m])

C37_NMINeverLost ==
  cpuOp = "execute" =>
    \A j \in 1 .. Len(cpuLog) :
      C37_NMIPending(j) =>
        /\ cpuLog[j].kind = "interrupt"
        /\ cpuLog[j].address = NMIVector

(***************************************************************************)
(* C38: after execute() has returned on a breakpoint, a trap or a          *)
(* conditional breakpoint, the next execute() with a budget above 0        *)
(* executes at least one instruction before a test of the debugger can     *)
(* stop it again, so repeated calls make progress; and a trap hit during   *)
(* the last instruction of a run is reported at the next instruction       *)
(* boundary.                                                               *)
(***************************************************************************)
\* The step is an execute() with a budget that follows an execute() a test
\* of the debugger stopped.
C38_AfterBreak ==
  /\ cpuOp = "execute"
  /\ cpuBreak # "none"
  /\ cpuOp' = "execute"
  /\ cpuBudget' > 0

C38_Progress ==
  C38_AfterBreak =>
    \/ cpuThrown'
    \/ /\ cpuTrace' # << >>
       /\ cpuLog'[1].kind = "begin"

\* A trap flag left set by the last instruction of an execute() stops the
\* next one before its first instruction, and is reported.
C38_TrapReported ==
  (/\ cpuOp = "execute"
   /\ cpuBreak = "none"
   /\ myJustHitReadTrapFlag \/ myJustHitWriteTrapFlag
   /\ cpuOp' = "execute"
   /\ cpuBudget' > 0) =>
    /\ cpuBreak' = "trap"
    /\ cpuTrace' = << >>
    /\ cpuResult'.status = "debugger"
    /\ cpuResult'.address = myHitTrapInfo.address

C39_FailedLoad ==
  /\ cartOp' = "load"
  /\ cartFailAt' # 0
  /\ ~cartRet'

C39_FailedLoadKeepsState ==
  [][C39_FailedLoad =>
       UNCHANGED <<bankInUse, myCurrentSlice, myCurrentRAM, myBankOffset, myRAM,
                   pageAccess>>]_vars

(***************************************************************************)
(* C31: 3E+ RAM ports.  In a segment switched to RAM only a poke to the    *)
(* write port (the upper 512 bytes) modifies the RAM bank, at the byte     *)
(* with the same offset the read port reads; a poke to the read port (the  *)
(* lower 512 bytes) leaves every RAM byte unchanged.                       *)
(***************************************************************************)
\* The 512 byte slot of a cartridge address holds a RAM bank.
C31_InRAM(addr) ==
  /\ HasBit(addr, 4096)
  /\ HasBit(bankInUse[Low(Shr(addr, RAM_BANK_TO_POWER), 7)], BITMASK_ROMRAM)
\* The address lies in the write port of its segment.
C31_WritePort(addr) == HasBit(addr, RAM_WRITE_OFFSET)
\* The RAM cell a read of the read port at the same offset returns.
C31_Cell(addr) ==
  Low(bankInUse[Low(Shr(addr, RAM_BANK_TO_POWER), 7)], BIT_BANK_MASK) * RAM_BANK_SIZE
    + Low(addr, RAM_BANK_SIZE - 1)
\* Every cell whose content is known keeps it.
C31_RAMUnchanged == \A o \in DOMAIN myRAM : o \in DOMAIN myRAM' /\ myRAM'[o] = myRAM[o]

C31_PokeStep(addr, value) ==
  /\ C31_InRAM(addr)
  /\ Poke3E(addr, value, FALSE)

C31_OnlyWritePortWrites ==
  [][\A addr \in Addrs3E, value \in DataValues :
       C31_PokeStep(addr, value) =>
         IF C31_WritePort(addr)
         THEN myRAM' = PokeRAM(CartState, C31_Cell(addr), value).myRAM
         ELSE C31_RAMUnchanged]_vars

(***************************************************************************)
(* C33: 3E+ bank table consistency.  After install, reset, hotspot writes  *)
(* and loads of a saved state, the two entries of every segment are both   *)
(* undefined, or both hold the same bank number and ROM/RAM kind, with the *)
(* segment in the segment bits and the lower/upper flag clear in entry 2s  *)
(* and set in entry 2s + 1; initializeBankState() then writes every entry  *)
(* back to its own position and is idempotent.                             *)
(***************************************************************************)
C33_SegmentConsistent(table, seg) ==
  LET lower == table[2 * seg]
      upper == table[2 * seg + 1]
  IN \/ lower = BANK_UNDEFINED /\ upper = BANK_UNDEFINED
     \/ /\ lower # BANK_UNDEFINED
        /\ upper # BANK_UNDEFINED
        /\ Low(lower, BIT_BANK_MASK) = Low(upper, BIT_BANK_MASK)
        /\ HasBit(lower, BITMASK_ROMRAM) = HasBit(upper, BITMASK_ROMRAM)
        /\ Low(Shr(lower, BANK_BITS), 3) = seg
        /\ Low(Shr(upper, BANK_BITS), 3) = seg
        /\ ~HasBit(lower, BITMASK_LOWERUPPER)
        /\ HasBit(upper, BITMASK_LOWERUPPER)

C33_BankTableConsistent ==
  (scheme = "3E+" /\ installed) =>
    /\ \A seg \in 0 .. 3 : C33_SegmentConsistent(bankInUse, seg)
    /\ InitializeBankState(CartState).bankInUse = bankInUse
    /\ InitializeBankState(InitializeBankState(CartState)) = InitializeBankState(CartState)

\* A load has restored a table with a RAM bank in segment 1, an undefined
\* segment and ROM in segment 3, over a table that a hotspot write changed.
C33_Witness ==
  /\ scheme = "3E+"
  /\ installed
  /\ cartOp = "load"
  /\ cartRet
  /\ HasBit(bankInUse[2], BITMASK_ROMRAM)
  /\ HasBit(bankInUse[3], BITMASK_ROMRAM)
  /\ bankInUse[4] = BANK_UNDEFINED
  /\ bankInUse[6] # BANK_UNDEFINED

(***************************************************************************)
(* C40: FixedStack::reverse() reverses the stack for every size from 0 to  *)
(* CAPACITY: element i becomes the former element size-1-i, size() is      *)
(* unchanged, no array slot at an index >= size is read or written (an     *)
(* empty stack is left untouched), and reversing twice restores the stack. *)
(***************************************************************************)
\* What the claim says of a reverse() of the stack `before` that left `after`
\* having accessed the indices `accessed`.
C40_Reversed(before, after, accessed) ==
  /\ after.size = before.size
  /\ \A i \in 0 .. (before.size - 1) : after.stack[i] = before.stack[before.size - 1 - i]
  /\ \A i \in before.size .. (CAPACITY - 1) : after.stack[i] = before.stack[i]
  /\ accessed \subseteq 0 .. (before.size - 1)

C40_ReverseReverses ==
  fsOp = "reverse" =>
    /\ ~fsOutOfBounds
    /\ ~fsCrashed
    /\ C40_Reversed(fsBefore, StackState, fsAccessed)
    /\ ~FixedStackReverse(StackState).outOfBounds
    /\ FixedStackReverse(StackState).stack = fsBefore.stack
    /\ FixedStackReverse(StackState).size = fsBefore.size

(***************************************************************************)
(* C32: the DPC+ random number register is non-zero in every state         *)
(* reachable from construction or reset by peeks and pokes, RANDOM0NEXT,   *)
(* RANDOM0PRIOR, RRESET and RWRITE0-3 included.                            *)
(***************************************************************************)
C32_RandomNumberNonZero == scheme = "DPC+" => myRandomNumber # {}

(***************************************************************************)
(* C34: DPC+ register bounds.  In every state reachable from reset by      *)
(* peeks and pokes each data fetcher counter is at most 0x0FFF, each       *)
(* fractional counter at most 0x0FFFFF and the parameter pointer at most   *)
(* 8, so every DFxDATA, DFxDATAW, DFxFRACDATA, DFxPUSH and DFxWRITE access *)
(* indexes the display image below 0x1000 and every PARAMETER write the    *)
(* parameter buffer below 8.                                               *)
(***************************************************************************)
C34_IndexInside(access) ==
  /\ access.array = "myDisplayImage" => access.index < 4096
  /\ access.array = "myParameter" => access.index < 8

C35_Called ==
  /\ cartOp = "poke"
  /\ fetchLog # << >>
  /\ fetchLog[1].array = "callFunction"

C35_CounterIndex ==
  C35_Called =>
    /\ myParameterPointer = 0
    /\ \A k \in 1 .. Len(fetchLog) :
         fetchLog[k].array = "myCounters" => fetchLog[k].index \in 0 .. 7

(***************************************************************************)
(* C36: DPC+ reset is history-independent.  After reset() on an unlocked   *)
(* cartridge the data fetcher registers, the random number register and    *)
(* the parameter pointer are those of a reset of a new cartridge, whatever *)
(* peeks and pokes came before.                                            *)
(***************************************************************************)
C36_ResetIsHistoryIndependent ==
  (scheme = "DPC+" /\ cartOp = "reset" /\ ~myBankLocked) =>
    /\ myBankOffset = 5 * 4096
    /\ myCounters = [i \in 0 .. 7 |-> 0]
    /\ myFractionalCounters = [i \in 0 .. 7 |-> 0]
    /\ myFractionalIncrements = [i \in 0 .. 7 |-> 0]
    /\ myRandomNumber = LFSRInitial
    /\ myParameterPointer = 0
=============================================================================
